---- MODULE Spec2Model ----
(***************************************************************************)
(* The journaled world state (crates/context/src/journal/inner.rs) and the *)
(* handler pipeline (crates/handler/src/handler.rs) of revm as state       *)
(* machines.                                                               *)
(*                                                                         *)
(* JournalInner's fields are the variables state, transient_storage, logs, *)
(* depth, journal, transaction_id, spec, warm_preloaded_addresses,         *)
(* warm_coinbase_address and precompiles.  Every method of JournalInner is *)
(* a pure operator from a journal record (Self) to the journal record the  *)
(* method leaves behind, so that a method that calls other methods         *)
(* (transfer calls load_account and touch_account) is the composition the  *)
(* code writes; an action installs the result in the variables.            *)
(***************************************************************************)
EXTENDS Integers, Sequences, FiniteSets, TLC

----------------------------------------------------------------------------
(* Bounds of the model *)

\* U256::MAX, scaled down: balances and values range over 0..U256_MAX.
U256_MAX == 3
\* The most journal operations the model performs in one transaction.
MaxOps == 3
\* The same for the specification of the transaction boundary (SpecTx).
MaxOpsTx == 5
\* The same for the specification of warm and cold access (SpecWarm).
MaxOpsWarm == 6
\* The same for the specification of storage across transactions (SpecStorage).
MaxOpsStorage == 7
\* The gas of a transaction: the most calls and stores of its frames.
MaxGas == 2
\* The most transactions of one session (transaction_id ranges over 0..MaxTx).
MaxTx == 2
\* The most checkpoints outstanding at once.
MaxDepth == 2

----------------------------------------------------------------------------
(* Primitives *)

\* primitives::KECCAK_EMPTY, the hash of the empty bytecode.
KECCAK_EMPTY == "KECCAK_EMPTY"

\* Option: None, Some(x) and the test and the value of a Some.
None == <<>>
Some(x) == <<x>>
is_some(o) == o # <<>>
unwrap(o) == o[1]

\* Option<Bytecode>::None and Option<Address>::None (the Some values are the
\* bytecodes and the addresses themselves).
NoCode == "NoCode"
NoAddress == "NoAddress"

\* HashMap: insert and remove on a function with a finite domain.
EmptyMap == [x \in {} |-> 0]
Put(f, k, v) == [x \in DOMAIN f \cup {k} |-> IF x = k THEN v ELSE f[x]]
Remove(f, k) == [x \in DOMAIN f \ {k} |-> f[x]]

\* The addresses of the model: a precompile, an externally owned account and a
\* contract.
PRECOMPILE == "precompile"
ALICE == "alice"
CONTRACT == "contract"
Addrs == {PRECOMPILE, ALICE, CONTRACT}

\* The storage keys of the model.
Keys == {"k1"}

\* U256 values.
U256 == 0..U256_MAX

\* Bytecode: the empty bytecode (Bytecode::default()), a raw contract, an
\* EIP-7702 delegation pointer and an EIP-7702 pointer to the zero address.
EmptyCode == "EmptyCode"
RawCode == "RawCode"
DelegCode == "DelegCode"
DelegZeroCode == "DelegZeroCode"
Bytecodes == {EmptyCode, RawCode, DelegCode, DelegZeroCode}

\* Bytecode::hash_slow: the empty bytecode hashes to KECCAK_EMPTY.
hash_slow(code) == IF code = EmptyCode THEN KECCAK_EMPTY ELSE code

\* SpecId, in fork order (the forks the code names); is_enabled_in compares
\* the positions.
HOMESTEAD == 1
TANGERINE == 2
SPURIOUS_DRAGON == 3
BYZANTIUM == 4
PETERSBURG == 5
SHANGHAI == 9
CANCUN == 10
PRAGUE == 11
is_enabled_in(spec_id, fork) == spec_id >= fork

\* u256 arithmetic: checked (None on overflow), saturating and wrapping.
checked_add(a, b) == IF a + b > U256_MAX THEN None ELSE Some(a + b)
checked_sub(a, b) == IF a < b THEN None ELSE Some(a - b)
saturating_add(a, b) == IF a + b > U256_MAX THEN U256_MAX ELSE a + b
wrapping_add(a, b) == (a + b) % (U256_MAX + 1)
wrapping_sub(a, b) == (a - b + U256_MAX + 1) % (U256_MAX + 1)

----------------------------------------------------------------------------
(* The Database (an external collaborator): a fixed, infallible in-memory   *)
(* database.                                                                *)

\* Database::basic: the precompile does not exist, alice is an externally owned
\* account, the contract holds U256::MAX and has code.
DbBasic(a) ==
    CASE a = PRECOMPILE -> None
      [] a = ALICE -> Some([balance |-> 2, nonce |-> 0, code_hash |-> KECCAK_EMPTY,
                            code |-> NoCode])
      [] OTHER -> Some([balance |-> U256_MAX, nonce |-> 1, code_hash |-> RawCode,
                        code |-> NoCode])

\* Database::storage: the slots of the contract and of alice are not zero.
DbStorage(a, k) == IF a = CONTRACT THEN 2 ELSE IF a = ALICE THEN 1 ELSE 0

\* Database::code_by_hash.
DbCodeByHash(h) == h

----------------------------------------------------------------------------
(* Account and EvmStorageSlot (crate state) *)

\* The transaction id of an account or slot marked cold.
StaleTx == -1

\* AccountInfo::default().
DefaultInfo == [balance |-> 0, nonce |-> 0, code_hash |-> KECCAK_EMPTY, code |-> NoCode]

\* HashMap::default() as Account::storage.
EmptyStorage == EmptyMap

\* Account::new_not_existing(transaction_id).
new_not_existing(tid) ==
    [info |-> DefaultInfo, storage |-> EmptyStorage, transaction_id |-> tid,
     status |-> {"LoadedAsNotExisting"}]

\* impl From<AccountInfo> for Account: the conversion is given no transaction id.
AccountFromInfo(info) ==
    [info |-> info, storage |-> EmptyStorage, transaction_id |-> 0, status |-> {}]

\* EvmStorageSlot::new(value, transaction_id).
EvmStorageSlot_new(value, tid) ==
    [original_value |-> value, present_value |-> value, transaction_id |-> tid]

is_touched(acc) == "Touched" \in acc.status
mark_touch(acc) == [acc EXCEPT !.status = @ \cup {"Touched"}]
unmark_touch(acc) == [acc EXCEPT !.status = @ \ {"Touched"}]
is_created(acc) == "Created" \in acc.status
is_created_locally(acc) == "CreatedLocal" \in acc.status
is_selfdestructed(acc) == "SelfDestructed" \in acc.status
is_selfdestructed_locally(acc) == "SelfDestructedLocal" \in acc.status
mark_created_locally(acc) == [acc EXCEPT !.status = @ \cup {"CreatedLocal", "Created"}]
unmark_created_locally(acc) == [acc EXCEPT !.status = @ \ {"CreatedLocal"}]
unmark_created(acc) == [acc EXCEPT !.status = @ \ {"Created"}]
mark_selfdestructed_locally(acc) ==
    [acc EXCEPT !.status = @ \cup {"SelfDestructed", "SelfDestructedLocal"}]
unmark_selfdestructed_locally(acc) == [acc EXCEPT !.status = @ \ {"SelfDestructedLocal"}]
unmark_selfdestruct(acc) == [acc EXCEPT !.status = @ \ {"SelfDestructed"}]

\* Account::selfdestruct: wipes the storage and the info.
account_selfdestruct(acc) == [acc EXCEPT !.storage = EmptyStorage, !.info = DefaultInfo]

\* Account::mark_warm_with_transaction_id: cold when the recorded transaction
\* id is not the current one; records the current one.
acc_is_cold(acc, tid) == acc.transaction_id # tid
acc_mark_warm(acc, tid) == [acc EXCEPT !.transaction_id = tid]
\* Account::mark_cold, EvmStorageSlot::mark_cold.
acc_mark_cold(acc) == [acc EXCEPT !.transaction_id = StaleTx]

----------------------------------------------------------------------------
(* JournalEntry (crate context, journal/entry.rs) *)

account_warmed(a) == [tag |-> "AccountWarmed", address |-> a]
account_touched(a) == [tag |-> "AccountTouched", address |-> a]
account_destroyed(a, target, destroyed_status, had_balance) ==
    [tag |-> "AccountDestroyed", address |-> a, target |-> target,
     destroyed_status |-> destroyed_status, had_balance |-> had_balance]
account_created(a, is_created_globally) ==
    [tag |-> "AccountCreated", address |-> a, is_created_globally |-> is_created_globally]
balance_changed(a, old_balance) ==
    [tag |-> "BalanceChanged", address |-> a, old_balance |-> old_balance]
nonce_changed(a) == [tag |-> "NonceChanged", address |-> a]
balance_transfer(from, to, balance) ==
    [tag |-> "BalanceTransfer", from |-> from, to |-> to, balance |-> balance]
code_changed(a) == [tag |-> "CodeChanged", address |-> a]
storage_warmed(a, k) == [tag |-> "StorageWarmed", address |-> a, key |-> k]
storage_changed(a, k, had_value) ==
    [tag |-> "StorageChanged", address |-> a, key |-> k, had_value |-> had_value]
transient_storage_changed(a, k, had_value) ==
    [tag |-> "TransientStorageChanged", address |-> a, key |-> k, had_value |-> had_value]

\* JournalEntryTr::revert(state, transient_storage, is_spurious_dragon_enabled):
\* the pair of the state and the transient storage the entry's undo leaves.
\* with_transient is FALSE where the code passes None (discard_tx).
entry_revert(e, st, ts, with_transient, is_spurious_dragon_enabled) ==
    CASE e.tag = "AccountWarmed" ->
           [st |-> [st EXCEPT ![e.address] = acc_mark_cold(@)], ts |-> ts]
      [] e.tag = "AccountTouched" ->
           [st |-> [st EXCEPT ![e.address] = unmark_touch(@)], ts |-> ts]
      [] e.tag = "AccountDestroyed" ->
           LET a0 == st[e.address]
               a1 == CASE e.destroyed_status = "GloballySelfdestroyed" ->
                            unmark_selfdestructed_locally(unmark_selfdestruct(a0))
                       [] e.destroyed_status = "LocallySelfdestroyed" ->
                            unmark_selfdestructed_locally(a0)
                       [] OTHER -> a0
               a2 == [a1 EXCEPT !.info.balance = wrapping_add(@, e.had_balance)]
               st1 == [st EXCEPT ![e.address] = a2]
           IN  [st |-> IF e.address # e.target
                       THEN [st1 EXCEPT ![e.target].info.balance =
                                            wrapping_sub(@, e.had_balance)]
                       ELSE st1,
                ts |-> ts]
      [] e.tag = "BalanceChanged" ->
           [st |-> [st EXCEPT ![e.address].info.balance = e.old_balance], ts |-> ts]
      [] e.tag = "BalanceTransfer" ->
           LET st1 == [st EXCEPT ![e.from].info.balance = wrapping_add(@, e.balance)]
           IN  [st |-> [st1 EXCEPT ![e.to].info.balance = wrapping_sub(@, e.balance)],
                ts |-> ts]
      [] e.tag = "NonceChanged" ->
           [st |-> [st EXCEPT ![e.address].info.nonce = @ - 1], ts |-> ts]
      [] e.tag = "AccountCreated" ->
           LET a0 == unmark_created_locally(st[e.address])
               a1 == IF e.is_created_globally THEN unmark_created(a0) ELSE a0
           IN  [st |-> [st EXCEPT ![e.address] =
                            [a1 EXCEPT !.info.nonce = 0, !.info.code = NoCode]],
                ts |-> ts]
      [] e.tag = "StorageWarmed" ->
           [st |-> [st EXCEPT ![e.address].storage = Remove(@, e.key)], ts |-> ts]
      [] e.tag = "StorageChanged" ->
           [st |-> [st EXCEPT ![e.address].storage[e.key].present_value = e.had_value],
            ts |-> ts]
      [] e.tag = "TransientStorageChanged" ->
           [st |-> st,
            ts |-> IF with_transient THEN [ts EXCEPT ![<<e.address, e.key>>] = e.had_value]
                   ELSE ts]
      [] e.tag = "CodeChanged" ->
           [st |-> [st EXCEPT ![e.address].info.code_hash = KECCAK_EMPTY,
                              ![e.address].info.code = NoCode],
            ts |-> ts]

\* journal.drain(from..).rev().for_each(|entry| entry.revert(..)): the entries
\* from index `from` (1-based) on are undone last to first.
RECURSIVE revert_entries(_, _, _, _, _, _)
revert_entries(entries, from, st, ts, with_transient, sd) ==
    IF Len(entries) < from THEN [st |-> st, ts |-> ts]
    ELSE CHOOSE undone \in
             {revert_entries(SubSeq(entries, 1, Len(entries) - 1), from, r.st, r.ts,
                             with_transient, sd) :
                  r \in {entry_revert(entries[Len(entries)], st, ts, with_transient, sd)}} :
             TRUE

----------------------------------------------------------------------------
(* JournalInner *)

VARIABLES
    state,                     \* EvmState: a map from the loaded addresses to Account
    transient_storage,         \* (address, key) -> value; 0 is an absent entry
    logs,                      \* Vec<Log>
    depth,
    journal,                   \* Vec<JournalEntry>
    transaction_id,
    spec,                      \* SpecId
    warm_preloaded_addresses,
    warm_coinbase_address,     \* Option<Address>
    precompiles,
    cps,                       \* history: the outstanding checkpoints, innermost last
                               \* (of a create: its caller, target and value)
    loaded,                    \* history: the accounts and the slots loaded in the
                               \* current transaction by a call not reverted since
    tx_start,                  \* history: the account state when the transaction began
    fuel,                      \* history: the operations the session may still perform
    last,                      \* history: the last operation, its inputs and results
    hs                         \* the handler: phase, result and counters of a run

jvars == <<state, transient_storage, logs, depth, journal, transaction_id, spec,
           warm_preloaded_addresses, warm_coinbase_address, precompiles>>
vars == <<state, transient_storage, logs, depth, journal, transaction_id, spec,
          warm_preloaded_addresses, warm_coinbase_address, precompiles,
          cps, loaded, tx_start, fuel, last, hs>>

\* The journal as one record, the `self` of JournalInner's methods.
Self ==
    [state |-> state, transient_storage |-> transient_storage, logs |-> logs,
     depth |-> depth, journal |-> journal, transaction_id |-> transaction_id,
     spec |-> spec, warm_preloaded_addresses |-> warm_preloaded_addresses,
     warm_coinbase_address |-> warm_coinbase_address, precompiles |-> precompiles]

\* The variables take the fields of journal record j.
Install(j) ==
    /\ state' = j.state
    /\ transient_storage' = j.transient_storage
    /\ logs' = j.logs
    /\ depth' = j.depth
    /\ journal' = j.journal
    /\ transaction_id' = j.transaction_id
    /\ spec' = j.spec
    /\ warm_preloaded_addresses' = j.warm_preloaded_addresses
    /\ warm_coinbase_address' = j.warm_coinbase_address
    /\ precompiles' = j.precompiles

EmptyTransient == [ak \in Addrs \X Keys |-> 0]

\* JournalInner::new, then set_spec_id and the precompile set of the fork.
JournalInner_new(spec_id, pre) ==
    [state |-> EmptyMap, transient_storage |-> EmptyTransient,
     logs |-> <<>>, depth |-> 0, journal |-> <<>>, transaction_id |-> 0,
     spec |-> spec_id, warm_preloaded_addresses |-> pre,
     warm_coinbase_address |-> NoAddress, precompiles |-> pre]

\* reset_preloaded_addresses without `clone_from`: the set is left as it is.
reset_preloaded_addresses_never_clones(warm, pre) == warm

\* reset_preloaded_addresses: nothing is cloned when the lengths agree.
reset_preloaded_addresses(warm, pre) ==
    IF Cardinality(warm) = Cardinality(pre) THEN warm ELSE pre

\* commit_tx that also drops the account state.
commit_tx_clears_state(j) ==
    [j EXCEPT !.state = EmptyMap,
              !.transient_storage = EmptyTransient,
              !.depth = 0,
              !.journal = <<>>,
              !.warm_coinbase_address = NoAddress,
              !.warm_preloaded_addresses =
                  reset_preloaded_addresses(j.warm_preloaded_addresses, j.precompiles),
              !.transaction_id = @ + 1,
              !.logs = <<>>]

\* JournalInner::commit_tx.
commit_tx(j) ==
    [j EXCEPT !.transient_storage = EmptyTransient,
              !.depth = 0,
              !.journal = <<>>,
              !.warm_coinbase_address = NoAddress,
              !.warm_preloaded_addresses =
                  reset_preloaded_addresses(j.warm_preloaded_addresses, j.precompiles),
              !.transaction_id = @ + 1,
              !.logs = <<>>]

\* discard_tx without `transient_storage.clear()`.
discard_tx_keeps_transient(j) ==
    LET r == revert_entries(j.journal, 1, j.state, j.transient_storage, FALSE,
                            is_enabled_in(j.spec, SPURIOUS_DRAGON))
    IN  [j EXCEPT !.state = r.st,
                  !.journal = <<>>,
                  !.depth = 0,
                  !.logs = <<>>,
                  !.transaction_id = @ + 1,
                  !.warm_coinbase_address = NoAddress,
                  !.warm_preloaded_addresses =
                      reset_preloaded_addresses(j.warm_preloaded_addresses, j.precompiles)]

\* JournalInner::discard_tx.
discard_tx(j) ==
    LET r == revert_entries(j.journal, 1, j.state, j.transient_storage, FALSE,
                            is_enabled_in(j.spec, SPURIOUS_DRAGON))
    IN  [j EXCEPT !.state = r.st,
                  !.journal = <<>>,
                  !.transient_storage = EmptyTransient,
                  !.depth = 0,
                  !.logs = <<>>,
                  !.transaction_id = @ + 1,
                  !.warm_coinbase_address = NoAddress,
                  !.warm_preloaded_addresses =
                      reset_preloaded_addresses(j.warm_preloaded_addresses, j.precompiles)]

\* finalize without the reset of transaction_id.
finalize_keeps_transaction_id(j) ==
    [j |-> [j EXCEPT !.warm_coinbase_address = NoAddress,
                     !.warm_preloaded_addresses =
                         reset_preloaded_addresses(j.warm_preloaded_addresses, j.precompiles),
                     !.state = EmptyMap,
                     !.logs = <<>>,
                     !.transient_storage = EmptyTransient,
                     !.journal = <<>>,
                     !.depth = 0],
     state |-> j.state]

\* JournalInner::finalize: the state is taken (mem::take) and returned.
finalize(j) ==
    [j |-> [j EXCEPT !.warm_coinbase_address = NoAddress,
                     !.warm_preloaded_addresses =
                         reset_preloaded_addresses(j.warm_preloaded_addresses, j.precompiles),
                     !.state = EmptyMap,
                     !.logs = <<>>,
                     !.transient_storage = EmptyTransient,
                     !.journal = <<>>,
                     !.depth = 0,
                     !.transaction_id = 0],
     state |-> j.state]

\* JournalInner::touch_account.
touch_account(j, a) ==
    IF ~is_touched(j.state[a])
    THEN [j EXCEPT !.journal = Append(@, account_touched(a)),
                   !.state[a] = mark_touch(@)]
    ELSE j

\* JournalInner::touch.
touch(j, a) == IF a \in DOMAIN j.state THEN touch_account(j, a) ELSE j

\* checkpoint without `self.depth += 1`.
checkpoint_keeps_depth(j) ==
    [checkpoint |-> [log_i |-> Len(j.logs), journal_i |-> Len(j.journal)], j |-> j]

\* JournalInner::checkpoint: the JournalCheckpoint and the journal after it.
checkpoint(j) ==
    [checkpoint |-> [log_i |-> Len(j.logs), journal_i |-> Len(j.journal)],
     j |-> [j EXCEPT !.depth = @ + 1]]

\* checkpoint_commit without `self.depth -= 1`.
checkpoint_commit_keeps_depth(j) == j

\* JournalInner::checkpoint_commit.
checkpoint_commit(j) == [j EXCEPT !.depth = @ - 1]

\* JournalInner::checkpoint_revert.
checkpoint_revert(j, cp) ==
    LET r == revert_entries(j.journal, cp.journal_i + 1, j.state, j.transient_storage,
                            TRUE, is_enabled_in(j.spec, SPURIOUS_DRAGON))
    IN  [j EXCEPT !.depth = @ - 1,
                  !.logs = SubSeq(@, 1, cp.log_i),
                  !.journal = SubSeq(@, 1, cp.journal_i),
                  !.state = r.st,
                  !.transient_storage = r.ts]

\* load_account_optional without `account.unmark_created_locally()`.
load_account_optional_keeps_created(j, a, load_code) ==
    LET occupied == a \in DOMAIN j.state
        is_cold == IF occupied THEN acc_is_cold(j.state[a], j.transaction_id)
                   ELSE /\ a \notin j.warm_preloaded_addresses
                        /\ j.warm_coinbase_address # a
        acc0 == IF occupied
                THEN LET w == acc_mark_warm(j.state[a], j.transaction_id)
                     IN  IF is_cold /\ is_selfdestructed_locally(w)
                         THEN unmark_selfdestructed_locally(account_selfdestruct(w))
                         ELSE w
                ELSE IF is_some(DbBasic(a)) THEN AccountFromInfo(unwrap(DbBasic(a)))
                     ELSE new_not_existing(j.transaction_id)
        acc1 == IF load_code /\ acc0.info.code = NoCode
                THEN [acc0 EXCEPT !.info.code =
                          IF acc0.info.code_hash = KECCAK_EMPTY THEN EmptyCode
                          ELSE DbCodeByHash(acc0.info.code_hash)]
                ELSE acc0
    IN  [j |-> [j EXCEPT !.state = Put(@, a, acc1),
                         !.journal = IF is_cold THEN Append(@, account_warmed(a)) ELSE @],
         is_cold |-> is_cold]

\* JournalInner::load_account_optional (no storage keys): the journal after the
\* call and the is_cold of the StateLoad it returns.
load_account_optional(j, a, load_code) ==
    LET occupied == a \in DOMAIN j.state
        is_cold == IF occupied THEN acc_is_cold(j.state[a], j.transaction_id)
                   ELSE /\ a \notin j.warm_preloaded_addresses
                        /\ j.warm_coinbase_address # a
        acc0 == IF occupied
                THEN LET w == acc_mark_warm(j.state[a], j.transaction_id)
                         s == IF is_cold /\ is_selfdestructed_locally(w)
                              THEN unmark_selfdestructed_locally(account_selfdestruct(w))
                              ELSE w
                     IN  IF is_cold THEN unmark_created_locally(s) ELSE w
                ELSE IF is_some(DbBasic(a)) THEN AccountFromInfo(unwrap(DbBasic(a)))
                     ELSE new_not_existing(j.transaction_id)
        acc1 == IF load_code /\ acc0.info.code = NoCode
                THEN [acc0 EXCEPT !.info.code =
                          IF acc0.info.code_hash = KECCAK_EMPTY THEN EmptyCode
                          ELSE DbCodeByHash(acc0.info.code_hash)]
                ELSE acc0
    IN  [j |-> [j EXCEPT !.state = Put(@, a, acc1),
                         !.journal = IF is_cold THEN Append(@, account_warmed(a)) ELSE @],
         is_cold |-> is_cold]

\* JournalInner::load_account.
load_account(j, a) == load_account_optional(j, a, FALSE)

\* JournalInner::load_code.
load_code(j, a) == load_account_optional(j, a, TRUE)

\* sload_with_account without `is_newly_created`: a vacant slot is always read
\* from the Database.
sload_ignores_created(j, a, k) ==
    LET account == j.state[a]
        occupied == k \in DOMAIN account.storage
        value == IF occupied THEN account.storage[k].present_value ELSE DbStorage(a, k)
        is_cold == IF occupied THEN acc_is_cold(account.storage[k], j.transaction_id)
                   ELSE TRUE
        slot == IF occupied THEN acc_mark_warm(account.storage[k], j.transaction_id)
                ELSE EvmStorageSlot_new(value, j.transaction_id)
    IN  [j |-> [j EXCEPT !.state[a].storage = Put(@, k, slot),
                         !.journal = IF is_cold THEN Append(@, storage_warmed(a, k)) ELSE @],
         value |-> value,
         is_cold |-> is_cold]

\* sload_with_account, as JournalInner::sload calls it on the account of
\* address a: the journal after the call, the value and is_cold.
sload(j, a, k) ==
    LET account == j.state[a]
        is_newly_created == is_created(account)
        occupied == k \in DOMAIN account.storage
        value == IF occupied THEN account.storage[k].present_value
                 ELSE IF is_newly_created THEN 0 ELSE DbStorage(a, k)
        is_cold == IF occupied THEN acc_is_cold(account.storage[k], j.transaction_id)
                   ELSE TRUE
        slot == IF occupied THEN acc_mark_warm(account.storage[k], j.transaction_id)
                ELSE EvmStorageSlot_new(value, j.transaction_id)
    IN  [j |-> [j EXCEPT !.state[a].storage = Put(@, k, slot),
                         !.journal = IF is_cold THEN Append(@, storage_warmed(a, k)) ELSE @],
         value |-> value,
         is_cold |-> is_cold]

\* sstore without the early return: StorageChanged is pushed also when the new
\* value is the present one.
sstore_always_journals(j, a, k, new) ==
    LET present == sload(j, a, k)
        slot == present.j.state[a].storage[k]
        res == [original_value |-> slot.original_value, present_value |-> present.value,
                new_value |-> new, is_cold |-> present.is_cold]
    IN  [j |-> [present.j EXCEPT
                    !.journal = Append(@, storage_changed(a, k, present.value)),
                    !.state[a].storage[k].present_value = new],
         res |-> res]

\* sstore with `slot.original_value = new` next to `slot.present_value = new`.
sstore_overwrites_original(j, a, k, new) ==
    LET present == sload(j, a, k)
        slot == present.j.state[a].storage[k]
        res == [original_value |-> slot.original_value, present_value |-> present.value,
                new_value |-> new, is_cold |-> present.is_cold]
    IN  IF present.value = new
        THEN [j |-> present.j, res |-> res]
        ELSE [j |-> [present.j EXCEPT
                         !.journal = Append(@, storage_changed(a, k, present.value)),
                         !.state[a].storage[k].present_value = new,
                         !.state[a].storage[k].original_value = new],
              res |-> res]

\* JournalInner::sstore: the journal after the call and the SStoreResult.
sstore(j, a, k, new) ==
    LET present == sload(j, a, k)
        slot == present.j.state[a].storage[k]
        res == [original_value |-> slot.original_value, present_value |-> present.value,
                new_value |-> new, is_cold |-> present.is_cold]
    IN  IF present.value = new
        THEN [j |-> present.j, res |-> res]
        ELSE [j |-> [present.j EXCEPT
                         !.journal = Append(@, storage_changed(a, k, present.value)),
                         !.state[a].storage[k].present_value = new],
              res |-> res]

\* JournalInner::tload.
tload(j, a, k) == j.transient_storage[<<a, k>>]

\* tstore that journals nothing when it removes a value: a store of zero
\* pushes no entry.
tstore_forgets_removal(j, a, k, new) ==
    LET old == j.transient_storage[<<a, k>>]
        had_value == IF new = 0 THEN None
                     ELSE (IF old # new THEN Some(old) ELSE None)
        j1 == [j EXCEPT !.transient_storage[<<a, k>>] = new]
    IN  IF is_some(had_value)
        THEN [j1 EXCEPT !.journal =
                 Append(@, transient_storage_changed(a, k, unwrap(had_value)))]
        ELSE j1

\* JournalInner::tstore.
tstore(j, a, k, new) ==
    LET old == j.transient_storage[<<a, k>>]
        had_value == IF new = 0
                     THEN (IF old # 0 THEN Some(old) ELSE None)
                     ELSE (IF old # new THEN Some(old) ELSE None)
        j1 == [j EXCEPT !.transient_storage[<<a, k>>] = new]
    IN  IF is_some(had_value)
        THEN [j1 EXCEPT !.journal =
                 Append(@, transient_storage_changed(a, k, unwrap(had_value)))]
        ELSE j1

\* JournalInner::log.
log(j, l) == [j EXCEPT !.logs = Append(@, l)]

\* JournalInner::set_code_with_hash.
set_code_with_hash(j, a, code, hash) ==
    LET j1 == touch_account(j, a)
    IN  [j1 EXCEPT !.journal = Append(@, code_changed(a)),
                   !.state[a].info.code_hash = hash,
                   !.state[a].info.code = code]

\* JournalInner::set_code: an EIP-7702 bytecode with the zero address erases.
set_code(j, a, code) ==
    IF code = DelegZeroCode
    THEN set_code_with_hash(j, a, EmptyCode, KECCAK_EMPTY)
    ELSE set_code_with_hash(j, a, code, hash_slow(code))

\* JournalInner::caller_accounting_journal_entry.
caller_accounting_journal_entry(j, a, old_balance, bump_nonce) ==
    LET j1 == [j EXCEPT !.journal =
                   Append(Append(@, balance_changed(a, old_balance)), account_touched(a))]
    IN  IF bump_nonce THEN [j1 EXCEPT !.journal = Append(@, nonce_changed(a))] ELSE j1

\* JournalInner::nonce_bump_journal_entry.
nonce_bump_journal_entry(j, a) == [j EXCEPT !.journal = Append(@, nonce_changed(a))]

\* JournalInner::balance_incr.
balance_incr(j, a, balance) ==
    LET j1 == load_account(j, a).j
        account == j1.state[a]
        old_balance == account.info.balance
        j2 == [j1 EXCEPT !.state[a].info.balance = saturating_add(@, balance)]
        j3 == IF ~is_touched(account)
              THEN [j2 EXCEPT !.state[a] = mark_touch(@),
                              !.journal = Append(@, account_touched(a))]
              ELSE j2
    IN  [j3 EXCEPT !.journal = Append(@, balance_changed(a, old_balance))]

\* transfer without the early return for a zero amount: both accounts are
\* loaded and touched and a BalanceTransfer of zero is pushed.
transfer_moves_zero(j, from, to, balance) ==
    LET j1 == load_account(load_account(j, from).j, to).j
        j2 == touch_account(j1, from)
        from_balance_decr == checked_sub(j2.state[from].info.balance, balance)
        j3 == [j2 EXCEPT !.state[from].info.balance = unwrap(from_balance_decr)]
        j4 == touch_account(j3, to)
        to_balance_incr == checked_add(j4.state[to].info.balance, balance)
    IN  IF ~is_some(from_balance_decr)
        THEN [j |-> j2, error |-> "OutOfFunds"]
        ELSE IF ~is_some(to_balance_incr)
        THEN [j |-> j4, error |-> "OverflowPayment"]
        ELSE [j |-> [j4 EXCEPT !.state[to].info.balance = unwrap(to_balance_incr),
                               !.journal = Append(@, balance_transfer(from, to, balance))],
              error |-> "None"]

\* JournalInner::transfer: the journal after the call and the Option<TransferError>
\* it returns ("None", "OutOfFunds" or "OverflowPayment").
transfer(j, from, to, balance) ==
    IF balance = 0
    THEN [j |-> touch_account(load_account(j, to).j, to), error |-> "None"]
    ELSE LET j1 == load_account(load_account(j, from).j, to).j
             j2 == touch_account(j1, from)
             from_balance_decr == checked_sub(j2.state[from].info.balance, balance)
         IN  IF ~is_some(from_balance_decr)
             THEN [j |-> j2, error |-> "OutOfFunds"]
             ELSE LET j3 == [j2 EXCEPT !.state[from].info.balance =
                                           unwrap(from_balance_decr)]
                      j4 == touch_account(j3, to)
                      to_balance_incr == checked_add(j4.state[to].info.balance, balance)
                  IN  IF ~is_some(to_balance_incr)
                      THEN [j |-> j4, error |-> "OverflowPayment"]
                      ELSE [j |-> [j4 EXCEPT
                                       !.state[to].info.balance = unwrap(to_balance_incr),
                                       !.journal =
                                           Append(@, balance_transfer(from, to, balance))],
                            error |-> "None"]

\* create_account_checkpoint with `target_acc.info.nonce = 1` on every fork.
create_account_checkpoint_nonce_always(j, caller, target_address, balance, spec_id) ==
    LET c == checkpoint(j)
        j1 == c.j
        caller_balance == j1.state[caller].info.balance
        target_acc == j1.state[target_address]
        is_created_globally == ~is_created(target_acc)
        j2 == [j1 EXCEPT !.state[target_address] =
                             [mark_created_locally(@) EXCEPT
                                 !.info.code = NoCode, !.info.nonce = 1],
                         !.journal =
                             Append(@, account_created(target_address, is_created_globally))]
        j3 == touch_account(j2, target_address)
        new_balance == checked_add(j3.state[target_address].info.balance, balance)
        j4 == [j3 EXCEPT !.state[target_address].info.balance = unwrap(new_balance)]
        j5 == [j4 EXCEPT !.state[caller].info.balance = @ - balance,
                         !.journal =
                             Append(@, balance_transfer(caller, target_address, balance))]
    IN  IF caller_balance < balance
        THEN [j |-> checkpoint_revert(j1, c.checkpoint), result |-> "OutOfFunds",
              checkpoint |-> c.checkpoint]
        ELSE IF target_acc.info.code_hash # KECCAK_EMPTY \/ target_acc.info.nonce # 0
        THEN [j |-> checkpoint_revert(j1, c.checkpoint), result |-> "CreateCollision",
              checkpoint |-> c.checkpoint]
        ELSE IF ~is_some(new_balance)
        THEN [j |-> checkpoint_revert(j3, c.checkpoint), result |-> "OverflowPayment",
              checkpoint |-> c.checkpoint]
        ELSE [j |-> j5, result |-> "Ok", checkpoint |-> c.checkpoint]

\* JournalInner::create_account_checkpoint: the journal after the call, the
\* result ("Ok" or the TransferError) and the checkpoint taken.
create_account_checkpoint(j, caller, target_address, balance, spec_id) ==
    LET c == checkpoint(j)
        j1 == c.j
        caller_balance == j1.state[caller].info.balance
        target_acc == j1.state[target_address]
        is_created_globally == ~is_created(target_acc)
        j2 == [j1 EXCEPT !.state[target_address] =
                             [mark_created_locally(@) EXCEPT
                                 !.info.code = NoCode,
                                 !.info.nonce = IF is_enabled_in(spec_id, SPURIOUS_DRAGON)
                                                THEN 1 ELSE @],
                         !.journal =
                             Append(@, account_created(target_address, is_created_globally))]
        j3 == touch_account(j2, target_address)
        new_balance == checked_add(j3.state[target_address].info.balance, balance)
        j4 == [j3 EXCEPT !.state[target_address].info.balance = unwrap(new_balance)]
        j5 == [j4 EXCEPT !.state[caller].info.balance = @ - balance,
                         !.journal =
                             Append(@, balance_transfer(caller, target_address, balance))]
    IN  IF caller_balance < balance
        THEN [j |-> checkpoint_revert(j1, c.checkpoint), result |-> "OutOfFunds",
              checkpoint |-> c.checkpoint]
        ELSE IF target_acc.info.code_hash # KECCAK_EMPTY \/ target_acc.info.nonce # 0
        THEN [j |-> checkpoint_revert(j1, c.checkpoint), result |-> "CreateCollision",
              checkpoint |-> c.checkpoint]
        ELSE IF ~is_some(new_balance)
        THEN [j |-> checkpoint_revert(j3, c.checkpoint), result |-> "OverflowPayment",
              checkpoint |-> c.checkpoint]
        ELSE [j |-> j5, result |-> "Ok", checkpoint |-> c.checkpoint]

\* Account::state_clear_aware_is_empty.
state_clear_aware_is_empty(acc, spec_id) ==
    IF is_enabled_in(spec_id, SPURIOUS_DRAGON)
    THEN acc.info.balance = 0 /\ acc.info.nonce = 0 /\ acc.info.code_hash = KECCAK_EMPTY
    ELSE "LoadedAsNotExisting" \in acc.status /\ ~is_touched(acc)

\* selfdestruct without the EIP-6780 condition: the account is destroyed on
\* every fork, created in the transaction or not.
selfdestruct_always_destroys(j, address, target) ==
    LET account_load == load_account(j, target)
        j1 == account_load.j
        is_empty == state_clear_aware_is_empty(j1.state[target], j1.spec)
        j2 == IF address # target
              THEN LET t == touch_account(j1, target)
                   IN  [t EXCEPT !.state[target].info.balance =
                                     wrapping_add(@, j1.state[address].info.balance)]
              ELSE j1
        acc == j2.state[address]
        balance == acc.info.balance
        destroyed_status ==
            IF ~is_selfdestructed(acc) THEN "GloballySelfdestroyed"
            ELSE IF ~is_selfdestructed_locally(acc) THEN "LocallySelfdestroyed"
            ELSE "RepeatedSelfdestruction"
        j3 == [j2 EXCEPT !.state[address] =
                             [mark_selfdestructed_locally(@) EXCEPT !.info.balance = 0],
                         !.journal = Append(@, account_destroyed(address, target,
                                                   destroyed_status, balance))]
    IN  [j |-> j3,
         had_value |-> balance # 0,
         target_exists |-> ~is_empty,
         previously_destroyed |-> destroyed_status = "RepeatedSelfdestruction",
         is_cold |-> account_load.is_cold]

\* JournalInner::selfdestruct: the journal after the call and the
\* StateLoad<SelfDestructResult> it returns.
selfdestruct(j, address, target) ==
    LET account_load == load_account(j, target)
        j1 == account_load.j
        is_empty == state_clear_aware_is_empty(j1.state[target], j1.spec)
        j2 == IF address # target
              THEN LET t == touch_account(j1, target)
                   IN  [t EXCEPT !.state[target].info.balance =
                                     wrapping_add(@, j1.state[address].info.balance)]
              ELSE j1
        acc == j2.state[address]
        balance == acc.info.balance
        destroyed_status ==
            IF ~is_selfdestructed(acc) THEN "GloballySelfdestroyed"
            ELSE IF ~is_selfdestructed_locally(acc) THEN "LocallySelfdestroyed"
            ELSE "RepeatedSelfdestruction"
        is_cancun_enabled == is_enabled_in(j1.spec, CANCUN)
        j3 == IF is_created_locally(acc) \/ ~is_cancun_enabled
              THEN [j2 EXCEPT !.state[address] =
                                  [mark_selfdestructed_locally(@) EXCEPT !.info.balance = 0],
                              !.journal = Append(@, account_destroyed(address, target,
                                                        destroyed_status, balance))]
              ELSE IF address # target
              THEN [j2 EXCEPT !.state[address].info.balance = 0,
                              !.journal = Append(@, balance_transfer(address, target, balance))]
              ELSE j2
    IN  [j |-> j3,
         had_value |-> balance # 0,
         target_exists |-> ~is_empty,
         previously_destroyed |-> destroyed_status = "RepeatedSelfdestruction",
         is_cold |-> account_load.is_cold]

----------------------------------------------------------------------------
(* What an observer of the journal reads *)

\* The account of address a as the journal would serve it: the loaded account,
\* or else the account load_account would insert from the Database.
AccountOf(j, a) ==
    IF a \in DOMAIN j.state THEN j.state[a]
    ELSE IF is_some(DbBasic(a)) THEN AccountFromInfo(unwrap(DbBasic(a)))
    ELSE new_not_existing(0)

\* The value sload would return for slot k of address a.
SlotValue(j, a, k) ==
    LET acc == AccountOf(j, a)
    IN  IF k \in DOMAIN acc.storage THEN acc.storage[k].present_value
        ELSE IF is_created(acc) THEN 0 ELSE DbStorage(a, k)

\* Balance, nonce, code hash, storage values and status flags of address a.
AccountView(j, a) ==
    LET acc == AccountOf(j, a)
    IN  [balance |-> acc.info.balance, nonce |-> acc.info.nonce,
         code_hash |-> acc.info.code_hash,
         storage |-> [k \in Keys |-> SlotValue(j, a, k)],
         status |-> acc.status]

\* The account state, the transient storage and the logs.
View(j) ==
    [accounts |-> [a \in Addrs |-> AccountView(j, a)],
     transient_storage |-> j.transient_storage,
     logs |-> j.logs]

----------------------------------------------------------------------------
(* The call and create instructions (crate interpreter)                     *)

\* u64::MAX, scaled down: gas amounts range over 0..U64_MAX.
U64_MAX == 1000000
\* gas::CALL_STIPEND and gas::CREATE.
CALL_STIPEND == 2300
CREATE == 32000
\* Host::max_initcode_size: twice the maximal size of contract code.
max_initcode_size == 49152

\* JournalInner::load_account_delegated: the journal after the call, is_cold,
\* is_empty and is_delegate_account_cold.  The delegation pointer of the
\* model points at the contract.
load_account_delegated(j, a) ==
    LET is_eip7702_enabled == is_enabled_in(j.spec, PRAGUE)
        account == load_account_optional(j, a, is_eip7702_enabled)
        acc == account.j.state[a]
        is_empty == state_clear_aware_is_empty(acc, j.spec)
    IN  IF acc.info.code = DelegCode
        THEN LET delegate_account == load_account(account.j, CONTRACT)
             IN  [j |-> delegate_account.j, is_cold |-> account.is_cold,
                  is_empty |-> is_empty,
                  is_delegate_account_cold |-> Some(delegate_account.is_cold)]
        ELSE [j |-> account.j, is_cold |-> account.is_cold, is_empty |-> is_empty,
              is_delegate_account_cold |-> None]

\* An interpreter about to run an instruction: its remaining gas, its runtime
\* flags and the target address of its input; no result and no action yet.
Interpreter_new(remaining, spec_id, is_static, target_address) ==
    [remaining |-> remaining, spec_id |-> spec_id, is_static |-> is_static,
     target_address |-> target_address, result |-> "None", action |-> None]

\* Interpreter::halt.
halt(i, result) == [i EXCEPT !.result = result]

\* The gas! macro (Gas::record_cost): the cost is charged, or the interpreter
\* halts out of gas and the instruction returns; nothing is charged once the
\* instruction has returned.
gas(i, cost) ==
    IF i.result # "None" THEN i
    ELSE IF cost > i.remaining THEN halt(i, "OutOfGas")
    ELSE [i EXCEPT !.remaining = @ - cost]

\* gas::call_cost: the access cost of the account, cold or warm, and of its
\* delegate; the cost of a value transfer; the cost of a new account when
\* value is transferred to an empty account.
call_cost(spec_id, has_transfer, account_load) ==
    (IF account_load.is_cold THEN 2600 ELSE 100)
    + (IF is_some(account_load.is_delegate_account_cold)
       THEN IF unwrap(account_load.is_delegate_account_cold) THEN 2600 ELSE 100
       ELSE 0)
    + (IF has_transfer THEN 9000 ELSE 0)
    + (IF has_transfer /\ account_load.is_empty THEN 25000 ELSE 0)

\* Gas::remaining_63_of_64_parts.
remaining_63_of_64_parts(i) == i.remaining - i.remaining \div 64

\* calc_call_gas without the cap of EIP-150: the child is given local_gas_limit
\* on every fork.
calc_call_gas_uncapped(i, account_load, has_transfer, local_gas_limit) ==
    LET i1 == gas(i, call_cost(i.spec_id, has_transfer, account_load))
    IN  IF i1.result # "None" THEN [i |-> i1, gas_limit |-> None]
        ELSE [i |-> i1, gas_limit |-> Some(local_gas_limit)]

\* calc_call_gas: the call cost is charged; the gas limit of the child is
\* capped by 63/64 of what remains from TANGERINE on (EIP-150).
calc_call_gas(i, account_load, has_transfer, local_gas_limit) ==
    LET i1 == gas(i, call_cost(i.spec_id, has_transfer, account_load))
    IN  IF i1.result # "None" THEN [i |-> i1, gas_limit |-> None]
        ELSE [i |-> i1,
              gas_limit |-> Some(IF is_enabled_in(i1.spec_id, TANGERINE)
                                 THEN IF remaining_63_of_64_parts(i1) < local_gas_limit
                                      THEN remaining_63_of_64_parts(i1)
                                      ELSE local_gas_limit
                                 ELSE local_gas_limit)]

\* u64::saturating_add.
saturating_add_u64(a, b) == IF a + b > U64_MAX THEN U64_MAX ELSE a + b

\* The end of call and of call_code, which differ in target_address and
\* scheme: c is what calc_call_gas returned; the gas limit is charged, the
\* stipend is added when value is transferred, the frame is requested.
call_frame(c, j, value, target_address, to, scheme) ==
    IF ~is_some(c.gas_limit) THEN [i |-> c.i, j |-> j]
    ELSE IF gas(c.i, unwrap(c.gas_limit)).result # "None"
    THEN [i |-> gas(c.i, unwrap(c.gas_limit)), j |-> j]
    ELSE [i |-> [gas(c.i, unwrap(c.gas_limit)) EXCEPT !.action = Some(
                    [frame |-> "Call",
                     gas_limit |-> IF value # 0
                                   THEN saturating_add_u64(unwrap(c.gas_limit), CALL_STIPEND)
                                   ELSE unwrap(c.gas_limit),
                     target_address |-> target_address,
                     caller |-> c.i.target_address,
                     bytecode_address |-> to,
                     value |-> value, scheme |-> scheme,
                     is_static |-> c.i.is_static])],
          j |-> j]

\* call without the check of the static context.
call_ignores_static(i, j, local_gas_limit, to, value, mem_cost, db_fails) ==
    IF gas(i, mem_cost).result # "None" THEN [i |-> gas(i, mem_cost), j |-> j]
    ELSE IF db_fails THEN [i |-> halt(gas(i, mem_cost), "FatalExternalError"), j |-> j]
    ELSE call_frame(calc_call_gas(gas(i, mem_cost), load_account_delegated(j, to),
                                  value # 0, local_gas_limit),
                    load_account_delegated(j, to).j, value, to, to, "Call")

\* The CALL instruction.  mem_cost is what get_memory_input_and_out_ranges
\* charges for the memory of input and output; db_fails is a Database error
\* in load_account_delegated.
call(i, j, local_gas_limit, to, value, mem_cost, db_fails) ==
    IF i.is_static /\ value # 0
    THEN [i |-> halt(i, "CallNotAllowedInsideStatic"), j |-> j]
    ELSE IF gas(i, mem_cost).result # "None" THEN [i |-> gas(i, mem_cost), j |-> j]
    ELSE IF db_fails THEN [i |-> halt(gas(i, mem_cost), "FatalExternalError"), j |-> j]
    ELSE call_frame(calc_call_gas(gas(i, mem_cost), load_account_delegated(j, to),
                                  value # 0, local_gas_limit),
                    load_account_delegated(j, to).j, value, to, to, "Call")

\* call_code without `load.is_empty = false`.
call_code_keeps_is_empty(i, j, local_gas_limit, to, value, mem_cost, db_fails) ==
    IF gas(i, mem_cost).result # "None" THEN [i |-> gas(i, mem_cost), j |-> j]
    ELSE IF db_fails THEN [i |-> halt(gas(i, mem_cost), "FatalExternalError"), j |-> j]
    ELSE call_frame(calc_call_gas(gas(i, mem_cost), load_account_delegated(j, to),
                                  value # 0, local_gas_limit),
                    load_account_delegated(j, to).j, value, i.target_address, to, "CallCode")

\* The CALLCODE instruction.
call_code(i, j, local_gas_limit, to, value, mem_cost, db_fails) ==
    IF gas(i, mem_cost).result # "None" THEN [i |-> gas(i, mem_cost), j |-> j]
    ELSE IF db_fails THEN [i |-> halt(gas(i, mem_cost), "FatalExternalError"), j |-> j]
    ELSE call_frame(calc_call_gas(gas(i, mem_cost), [load_account_delegated(j, to) EXCEPT !.is_empty = FALSE],
                                  value # 0, local_gas_limit),
                    load_account_delegated(j, to).j, value, i.target_address, to, "CallCode")

\* The end of delegate_call and of static_call: c is what calc_call_gas
\* returned; the gas limit is charged and the frame of `inputs` is requested
\* with that gas limit, without a stipend.
new_frame(c, j, inputs) ==
    IF ~is_some(c.gas_limit) THEN [i |-> c.i, j |-> j]
    ELSE IF gas(c.i, unwrap(c.gas_limit)).result # "None"
    THEN [i |-> gas(c.i, unwrap(c.gas_limit)), j |-> j]
    ELSE [i |-> [gas(c.i, unwrap(c.gas_limit)) EXCEPT !.action = Some(
                    [inputs EXCEPT !.gas_limit = unwrap(c.gas_limit)])],
          j |-> j]

\* The DELEGATECALL instruction.  caller_address and call_value are those of
\* the interpreter's input; the value of the frame is CallValue::Apparent,
\* which the scheme DelegateCall tells from a CallValue::Transfer.
delegate_call(i, j, local_gas_limit, to, caller_address, call_value, mem_cost, db_fails) ==
    IF ~is_enabled_in(i.spec_id, HOMESTEAD) THEN [i |-> halt(i, "NotActivated"), j |-> j]
    ELSE IF gas(i, mem_cost).result # "None" THEN [i |-> gas(i, mem_cost), j |-> j]
    ELSE IF db_fails THEN [i |-> halt(gas(i, mem_cost), "FatalExternalError"), j |-> j]
    ELSE new_frame(calc_call_gas(gas(i, mem_cost),
                                 [load_account_delegated(j, to) EXCEPT !.is_empty = FALSE],
                                 FALSE, local_gas_limit),
                   load_account_delegated(j, to).j,
                   [frame |-> "Call", gas_limit |-> 0,
                    target_address |-> i.target_address,
                    caller |-> caller_address,
                    bytecode_address |-> to,
                    value |-> call_value, scheme |-> "DelegateCall",
                    is_static |-> i.is_static])

\* static_call with the static flag of the frame taken from the context.
static_call_inherits_static(i, j, local_gas_limit, to, mem_cost, db_fails) ==
    IF ~is_enabled_in(i.spec_id, BYZANTIUM) THEN [i |-> halt(i, "NotActivated"), j |-> j]
    ELSE IF gas(i, mem_cost).result # "None" THEN [i |-> gas(i, mem_cost), j |-> j]
    ELSE IF db_fails THEN [i |-> halt(gas(i, mem_cost), "FatalExternalError"), j |-> j]
    ELSE new_frame(calc_call_gas(gas(i, mem_cost),
                                 [load_account_delegated(j, to) EXCEPT !.is_empty = FALSE],
                                 FALSE, local_gas_limit),
                   load_account_delegated(j, to).j,
                   [frame |-> "Call", gas_limit |-> 0,
                    target_address |-> to,
                    caller |-> i.target_address,
                    bytecode_address |-> to,
                    value |-> 0, scheme |-> "StaticCall",
                    is_static |-> i.is_static])

\* The STATICCALL instruction.
static_call(i, j, local_gas_limit, to, mem_cost, db_fails) ==
    IF ~is_enabled_in(i.spec_id, BYZANTIUM) THEN [i |-> halt(i, "NotActivated"), j |-> j]
    ELSE IF gas(i, mem_cost).result # "None" THEN [i |-> gas(i, mem_cost), j |-> j]
    ELSE IF db_fails THEN [i |-> halt(gas(i, mem_cost), "FatalExternalError"), j |-> j]
    ELSE new_frame(calc_call_gas(gas(i, mem_cost),
                                 [load_account_delegated(j, to) EXCEPT !.is_empty = FALSE],
                                 FALSE, local_gas_limit),
                   load_account_delegated(j, to).j,
                   [frame |-> "Call", gas_limit |-> 0,
                    target_address |-> to,
                    caller |-> i.target_address,
                    bytecode_address |-> to,
                    value |-> 0, scheme |-> "StaticCall",
                    is_static |-> TRUE])

\* The costs create charges before the gas of the child: the initcode cost
\* from SHANGHAI on (EIP-3860) and the memory of the initcode, when there is
\* initcode, then gas::CREATE or gas::create2_cost(len).
create_costs(i, IS_CREATE2, len, mem_cost) ==
    gas(gas(gas(i, IF len # 0 /\ is_enabled_in(i.spec_id, SHANGHAI)
                   THEN 2 * ((len + 31) \div 32) ELSE 0),
            IF len # 0 THEN mem_cost ELSE 0),
        IF IS_CREATE2 THEN CREATE + 6 * ((len + 31) \div 32) ELSE CREATE)

\* The gas limit of the created frame: all but one 64th of the remaining gas
\* from TANGERINE on (EIP-150).
create_gas_limit(i) ==
    IF is_enabled_in(i.spec_id, TANGERINE) THEN i.remaining - i.remaining \div 64
    ELSE i.remaining

\* The gas limit of the created frame without EIP-150.
create_gas_limit_all(i) == i.remaining

\* The end of create: the gas limit is charged and the frame is requested.
create_frame(i, caller, IS_CREATE2, value, len, gas_limit) ==
    IF i.result # "None" THEN i
    ELSE [gas(i, gas_limit) EXCEPT !.action = Some(
             [frame |-> "Create", caller |-> caller,
              scheme |-> IF IS_CREATE2 THEN "Create2" ELSE "Create",
              value |-> value, init_code |-> len, gas_limit |-> gas_limit])]

\* create with the gas limit of the frame not reduced by EIP-150.
create_keeps_nothing(i, IS_CREATE2, value, len, mem_cost) ==
    IF i.is_static THEN halt(i, "StateChangeDuringStaticCall")
    ELSE IF IS_CREATE2 /\ ~is_enabled_in(i.spec_id, PETERSBURG) THEN halt(i, "NotActivated")
    ELSE IF len # 0 /\ is_enabled_in(i.spec_id, SHANGHAI) /\ len > max_initcode_size
    THEN halt(i, "CreateInitCodeSizeLimit")
    ELSE create_frame(create_costs(i, IS_CREATE2, len, mem_cost), i.target_address,
                      IS_CREATE2, value, len,
                      create_gas_limit_all(create_costs(i, IS_CREATE2, len, mem_cost)))

\* The CREATE and CREATE2 instructions.  The initcode is modelled by its
\* length; mem_cost is what resize_memory! charges for it.
create(i, IS_CREATE2, value, len, mem_cost) ==
    IF i.is_static THEN halt(i, "StateChangeDuringStaticCall")
    ELSE IF IS_CREATE2 /\ ~is_enabled_in(i.spec_id, PETERSBURG) THEN halt(i, "NotActivated")
    ELSE IF len # 0 /\ is_enabled_in(i.spec_id, SHANGHAI) /\ len > max_initcode_size
    THEN halt(i, "CreateInitCodeSizeLimit")
    ELSE create_frame(create_costs(i, IS_CREATE2, len, mem_cost), i.target_address,
                      IS_CREATE2, value, len,
                      create_gas_limit(create_costs(i, IS_CREATE2, len, mem_cost)))

----------------------------------------------------------------------------
(* Operations on the journal, as the interpreter and the handler call them *)

NothingLoaded == [accounts |-> {}, slots |-> {}]

\* One operation: the journal takes the fields of j, `last` records l.
Step(j, l) ==
    /\ fuel > 0
    /\ fuel' = fuel - 1
    /\ Install(j)
    /\ last' = l

\* What a transaction boundary finds: the fields it resets.
Before ==
    [depth |-> depth, journal |-> Len(journal), logs |-> Len(logs),
     transient_storage |-> transient_storage,
     warm_coinbase_address |-> warm_coinbase_address,
     warm_preloaded_addresses |-> warm_preloaded_addresses,
     transaction_id |-> transaction_id]

Checkpoint ==
    /\ depth < MaxDepth
    /\ LET c == checkpoint(Self)
       IN  /\ Step(c.j, [op |-> "checkpoint"])
           /\ cps' = Append(cps, [checkpoint |-> c.checkpoint, snap |-> View(c.j),
                                  loaded |-> loaded, created |-> <<>>])
    /\ UNCHANGED <<loaded, tx_start, hs>>

\* A frame returns successfully: its checkpoint, the innermost, is committed.
CheckpointCommit ==
    /\ cps # <<>>
    /\ Step(checkpoint_commit(Self), [op |-> "checkpoint_commit"])
    /\ cps' = SubSeq(cps, 1, Len(cps) - 1)
    /\ UNCHANGED <<loaded, tx_start, hs>>

\* A frame reverts: its checkpoint, the innermost, is reverted.
CheckpointRevert ==
    /\ cps # <<>>
    /\ LET c == cps[Len(cps)]
       IN  /\ Step(checkpoint_revert(Self, c.checkpoint),
                   [op |-> "checkpoint_revert", snap |-> c.snap,
                    checkpoint |-> c.checkpoint, created |-> c.created])
           /\ loaded' = c.loaded
    /\ cps' = SubSeq(cps, 1, Len(cps) - 1)
    /\ UNCHANGED <<tx_start, hs>>

CommitTx ==
    /\ transaction_id < MaxTx
    /\ LET j == commit_tx(Self)
       IN  /\ Step(j, [op |-> "commit_tx", before |-> Before])
           /\ tx_start' = View(j).accounts
    /\ cps' = <<>>
    /\ loaded' = NothingLoaded
    /\ UNCHANGED hs

DiscardTx ==
    /\ transaction_id < MaxTx
    /\ LET j == discard_tx(Self)
       IN  /\ Step(j, [op |-> "discard_tx", before |-> Before, tx_start |-> tx_start])
           /\ tx_start' = View(j).accounts
    /\ cps' = <<>>
    /\ loaded' = NothingLoaded
    /\ UNCHANGED hs

LoadAccount(a) ==
    /\ LET r == load_account(Self, a)
       IN  Step(r.j, [op |-> "load_account", address |-> a, is_cold |-> r.is_cold,
                      was_loaded |-> a \in loaded.accounts,
                      preloaded |-> \/ a \in warm_preloaded_addresses
                                    \/ warm_coinbase_address = a,
                      pushed |-> SubSeq(r.j.journal, Len(journal) + 1, Len(r.j.journal))])
    /\ loaded' = [loaded EXCEPT !.accounts = @ \cup {a}]
    /\ UNCHANGED <<cps, tx_start, hs>>

Touch(a) ==
    /\ Step(touch(Self, a), [op |-> "touch", address |-> a])
    /\ UNCHANGED <<cps, loaded, tx_start, hs>>

Transfer(from, to, balance) ==
    /\ LET r == transfer(Self, from, to, balance)
       IN  Step(r.j, [op |-> "transfer", from |-> from, to |-> to, balance |-> balance,
                      error |-> r.error])
    /\ loaded' = [loaded EXCEPT !.accounts = @ \cup (IF balance = 0 THEN {to} ELSE {from, to})]
    /\ UNCHANGED <<cps, tx_start, hs>>

BalanceIncr(a, balance) ==
    /\ Step(balance_incr(Self, a, balance),
            [op |-> "balance_incr", address |-> a, balance |-> balance])
    /\ loaded' = [loaded EXCEPT !.accounts = @ \cup {a}]
    /\ UNCHANGED <<cps, tx_start, hs>>

\* The account is loaded, as set_code assumes.
SetCode(a, code) ==
    /\ a \in loaded.accounts
    /\ Step(set_code(Self, a, code), [op |-> "set_code", address |-> a, code |-> code])
    /\ UNCHANGED <<cps, loaded, tx_start, hs>>

\* The account is loaded, as sload assumes.
SLoad(a, k) ==
    /\ a \in loaded.accounts
    /\ LET r == sload(Self, a, k)
       IN  Step(r.j, [op |-> "sload", address |-> a, key |-> k, value |-> r.value,
                      is_cold |-> r.is_cold,
                      was_loaded |-> <<a, k>> \in loaded.slots,
                      pushed |-> SubSeq(r.j.journal, Len(journal) + 1, Len(r.j.journal))])
    /\ loaded' = [loaded EXCEPT !.slots = @ \cup {<<a, k>>}]
    /\ UNCHANGED <<cps, tx_start, hs>>

SStore(a, k, new) ==
    /\ a \in loaded.accounts
    /\ LET r == sstore(Self, a, k, new)
       IN  Step(r.j, [op |-> "sstore", address |-> a, key |-> k, res |-> r.res,
                      pushed |-> SubSeq(r.j.journal, Len(journal) + 1, Len(r.j.journal))])
    /\ loaded' = [loaded EXCEPT !.slots = @ \cup {<<a, k>>}]
    /\ UNCHANGED <<cps, tx_start, hs>>

TStore(a, k, new) ==
    /\ Step(tstore(Self, a, k, new),
            [op |-> "tstore", address |-> a, key |-> k, new |-> new])
    /\ UNCHANGED <<cps, loaded, tx_start, hs>>

Log(l) ==
    /\ Step(log(Self, l), [op |-> "log"])
    /\ UNCHANGED <<cps, loaded, tx_start, hs>>

\* `address` is loaded: it is the contract being executed.
SelfDestruct(address, target) ==
    /\ address \in loaded.accounts
    /\ LET r == selfdestruct(Self, address, target)
       IN  Step(r.j, [op |-> "selfdestruct", address |-> address, target |-> target,
                      res |-> [had_value |-> r.had_value, target_exists |-> r.target_exists,
                               previously_destroyed |-> r.previously_destroyed,
                               is_cold |-> r.is_cold]])
    /\ loaded' = [loaded EXCEPT !.accounts = @ \cup {target}]
    /\ UNCHANGED <<cps, tx_start, hs>>

\* Caller and target are loaded, as create_account_checkpoint assumes.
CreateAccountCheckpoint(caller, target, balance) ==
    /\ depth < MaxDepth
    /\ caller \in loaded.accounts
    /\ target \in loaded.accounts
    /\ LET r == create_account_checkpoint(Self, caller, target, balance, spec)
       IN  /\ Step(r.j, [op |-> "create_account_checkpoint", caller |-> caller,
                         target |-> target, balance |-> balance, result |-> r.result])
           /\ cps' = IF r.result = "Ok"
                     THEN Append(cps, [checkpoint |-> r.checkpoint, snap |-> View(Self),
                                       loaded |-> loaded,
                                       created |-> <<caller, target, balance>>])
                     ELSE cps
    /\ UNCHANGED <<loaded, tx_start, hs>>

\* JournalInner::finalize: the session ends and the state is handed out.
Finalize ==
    /\ LET r == finalize(Self)
       IN  /\ Step(r.j, [op |-> "finalize", before |-> Before, state |-> r.state])
           /\ tx_start' = View(r.j).accounts
    /\ cps' = <<>>
    /\ loaded' = NothingLoaded
    /\ UNCHANGED hs

\* An address of the access list is warmed (EIP-2929): it is inserted into
\* warm_preloaded_addresses, which is append-only within a transaction.
WarmAccount(a) ==
    /\ Step([Self EXCEPT !.warm_preloaded_addresses = @ \cup {a}],
            [op |-> "warm_account", address |-> a])
    /\ UNCHANGED <<cps, loaded, tx_start, hs>>

\* The gas an interpreter has left when it reaches the instruction, and the gas
\* limits and lengths of initcode on its stack.
Gases == {100, 12000, 100000}
GasLimits == {0, 300, U64_MAX}
InitcodeLens == {0, 64, max_initcode_size + 1}

\* The accounts an instruction has loaded: those warmed in the journal.
LoadedBy(j) ==
    [loaded EXCEPT !.accounts =
        @ \cup {a \in DOMAIN j.state :
                  a \notin DOMAIN state \/ j.state[a].transaction_id # state[a].transaction_id}]

\* The interpreter of the contract runs CALL; the instruction ends its run,
\* with an action or halted.  The Database can fail only when it is asked.
Call(remaining, is_static, local_gas_limit, to, value, mem_cost, db_fails) ==
    /\ fuel > 0
    /\ db_fails => to \notin DOMAIN state
    /\ LET i == Interpreter_new(remaining, spec, is_static, CONTRACT)
           r == call(i, Self, local_gas_limit, to, value, mem_cost, db_fails)
       IN  /\ Install(r.j)
           /\ loaded' = LoadedBy(r.j)
           /\ last' = [op |-> "call", interp |-> i, after |-> r.i,
                       local_gas_limit |-> local_gas_limit, to |-> to, value |-> value,
                       mem_cost |-> mem_cost, db_fails |-> db_fails]
    /\ fuel' = 0
    /\ UNCHANGED <<cps, tx_start, hs>>

\* The interpreter of the contract runs CALLCODE.
CallCode(remaining, is_static, local_gas_limit, to, value, mem_cost, db_fails) ==
    /\ fuel > 0
    /\ db_fails => to \notin DOMAIN state
    /\ LET i == Interpreter_new(remaining, spec, is_static, CONTRACT)
           r == call_code(i, Self, local_gas_limit, to, value, mem_cost, db_fails)
       IN  /\ Install(r.j)
           /\ loaded' = LoadedBy(r.j)
           /\ last' = [op |-> "call_code", interp |-> i, after |-> r.i,
                       local_gas_limit |-> local_gas_limit, to |-> to, value |-> value,
                       mem_cost |-> mem_cost, db_fails |-> db_fails]
    /\ fuel' = 0
    /\ UNCHANGED <<cps, tx_start, hs>>

\* The interpreter of the contract runs CREATE or CREATE2, which do not call
\* the journal.
Create(remaining, is_static, IS_CREATE2, value, len, mem_cost) ==
    /\ fuel > 0
    /\ LET i == Interpreter_new(remaining, spec, is_static, CONTRACT)
       IN  last' = [op |-> "create", interp |-> i,
                    after |-> create(i, IS_CREATE2, value, len, mem_cost),
                    IS_CREATE2 |-> IS_CREATE2, value |-> value, len |-> len,
                    mem_cost |-> mem_cost]
    /\ fuel' = 0
    /\ UNCHANGED <<jvars, cps, loaded, tx_start, hs>>

\* The frame an instruction has requested, or None.
RequestedFrame(l) ==
    IF l.op = "frame_instr" THEN l.after.action ELSE None

\* The interpreter of the frame that the last instruction requested: its gas
\* is the gas limit of the frame and its target the target address of the
\* frame; the frame of a call is static as the frame input says, the frame of
\* a creation is not static.  Without a requested frame it is the interpreter
\* of a first frame.
FrameInterpreter(l, remaining, is_static) ==
    IF ~is_some(RequestedFrame(l))
    THEN Interpreter_new(remaining, spec, is_static, CONTRACT)
    ELSE IF unwrap(RequestedFrame(l)).frame = "Call"
    THEN Interpreter_new(unwrap(RequestedFrame(l)).gas_limit, spec,
                         unwrap(RequestedFrame(l)).is_static,
                         unwrap(RequestedFrame(l)).target_address)
    ELSE Interpreter_new(unwrap(RequestedFrame(l)).gas_limit, spec, FALSE, CONTRACT)

\* The caller and the call value of the input of that interpreter.
FrameCaller(l) ==
    IF is_some(RequestedFrame(l)) THEN unwrap(RequestedFrame(l)).caller ELSE ALICE
FrameCallValue(l) ==
    IF is_some(RequestedFrame(l)) THEN unwrap(RequestedFrame(l)).value ELSE 0

\* One call or create instruction run by interpreter i.
RunInstr(instr, i, j, l, local_gas_limit, to, value) ==
    CASE instr = "call" -> call(i, j, local_gas_limit, to, value, 0, FALSE)
      [] instr = "call_code" -> call_code(i, j, local_gas_limit, to, value, 0, FALSE)
      [] instr = "delegate_call" ->
           delegate_call(i, j, local_gas_limit, to, FrameCaller(l), FrameCallValue(l),
                         0, FALSE)
      [] instr = "static_call" -> static_call(i, j, local_gas_limit, to, 0, FALSE)
      [] instr = "create" -> [i |-> create(i, FALSE, value, 0, 0), j |-> j]
      [] instr = "create2" -> [i |-> create(i, TRUE, value, 0, 0), j |-> j]

Instrs == {"call", "call_code", "delegate_call", "static_call", "create", "create2"}

\* The frame on top of the call stack runs a call or create instruction: the
\* frame that the last instruction requested, or a first frame.  `last`
\* records whether a frame above it in the stack is static, and its depth.
FrameInstr(instr, remaining, is_static, local_gas_limit, to, value) ==
    /\ fuel > 0
    /\ fuel' = fuel - 1
    /\ \E i \in {FrameInterpreter(last, remaining, is_static)} :
        \E r \in {RunInstr(instr, i, Self, last, local_gas_limit, to, value)} :
           /\ Install(r.j)
           /\ loaded' = LoadedBy(r.j)
           /\ last' = [op |-> "frame_instr", instr |-> instr, interp |-> i,
                       after |-> r.i, to |-> to, value |-> value,
                       static_above |-> IF is_some(RequestedFrame(last))
                                        THEN last.static_above \/ last.interp.is_static
                                        ELSE FALSE,
                       frames |-> IF is_some(RequestedFrame(last))
                                  THEN last.frames + 1 ELSE 1]
    /\ UNCHANGED <<cps, tx_start, hs>>

\* Journal::warm_coinbase_account: the beneficiary is warm (EIP-3651).
WarmCoinbase(a) ==
    /\ warm_coinbase_address = NoAddress
    /\ Step([Self EXCEPT !.warm_coinbase_address = a], [op |-> "warm_coinbase_account"])
    /\ UNCHANGED <<cps, loaded, tx_start, hs>>

----------------------------------------------------------------------------
(* The journal on its own: any sequence of its operations *)

\* The handler is not running.
HandlerIdle ==
    [pc |-> "idle", mode |-> "none", phases |-> <<>>, error |-> None,
     failed |-> "none", result |-> "none", result_error |-> None,
     ctx_error |-> "Ok", drained |-> "none", frame_stack |-> <<>>,
     gas |-> 0, commits |-> 0, discards |-> 0, tid0 |-> 0,
     beneficiary |-> NoAddress, fee |-> 0]

\* The state after construction: the journal is j, the session may perform n
\* operations.
InitJournal(j, n) ==
    /\ state = j.state
    /\ transient_storage = j.transient_storage
    /\ logs = j.logs
    /\ depth = j.depth
    /\ journal = j.journal
    /\ transaction_id = j.transaction_id
    /\ spec = j.spec
    /\ warm_preloaded_addresses = j.warm_preloaded_addresses
    /\ warm_coinbase_address = j.warm_coinbase_address
    /\ precompiles = j.precompiles
    /\ cps = <<>>
    /\ loaded = NothingLoaded
    /\ tx_start = View(j).accounts
    /\ fuel = n
    /\ last = [op |-> "new"]
    /\ hs = HandlerIdle

\* The amounts, values and bytecodes the operations are called with.
Amounts == {0, 1}
Values == {0, 1}
Codes == {RawCode, DelegCode}

Init == \E f \in {SPURIOUS_DRAGON, CANCUN} : InitJournal(JournalInner_new(f, {PRECOMPILE}), MaxOps)

Next ==
    \/ Checkpoint
    \/ CheckpointCommit
    \/ CheckpointRevert
    \/ CommitTx
    \/ DiscardTx
    \/ \E a \in Addrs : LoadAccount(a)
    \/ \E a \in Addrs : Touch(a)
    \/ \E from \in Addrs, to \in Addrs, b \in Amounts : Transfer(from, to, b)
    \/ \E a \in Addrs, b \in Amounts : BalanceIncr(a, b)
    \/ \E a \in Addrs, c \in Codes : SetCode(a, c)
    \/ \E a \in Addrs, k \in Keys : SLoad(a, k)
    \/ \E a \in Addrs, k \in Keys, v \in Values : SStore(a, k, v)
    \/ \E a \in Addrs, k \in Keys, v \in Values : TStore(a, k, v)
    \/ Log("log")
    \/ \E a \in Addrs, t \in Addrs : SelfDestruct(a, t)
    \/ \E c \in Addrs, t \in Addrs, b \in Amounts : CreateAccountCheckpoint(c, t, b)
    \/ \E a \in Addrs : WarmCoinbase(a)

Spec == Init /\ [][Next]_vars

\* Checkpoints and transaction boundaries around loads, logs, transient
\* stores, balance increments and account creation.
InitTx ==
    \E f \in {HOMESTEAD, CANCUN} : InitJournal(JournalInner_new(f, {PRECOMPILE}), MaxOpsTx)

NextTx ==
    \/ Checkpoint
    \/ CheckpointCommit
    \/ CheckpointRevert
    \/ CommitTx
    \/ DiscardTx
    \/ \E a \in Addrs : LoadAccount(a)
    \/ Log("log")
    \/ TStore(ALICE, "k1", 1)
    \/ BalanceIncr(PRECOMPILE, U256_MAX)
    \/ \E t \in {PRECOMPILE, CONTRACT}, b \in {0, 1, U256_MAX} :
           CreateAccountCheckpoint(ALICE, t, b)
    \/ WarmCoinbase(ALICE)

SpecTx == InitTx /\ [][NextTx]_vars

\* Loads and stores of accounts and slots across checkpoints and transactions.
InitWarm ==
    InitJournal(JournalInner_new(CANCUN, {PRECOMPILE}), MaxOpsWarm)

NextWarm ==
    \/ Checkpoint
    \/ CheckpointCommit
    \/ CheckpointRevert
    \/ CommitTx
    \/ DiscardTx
    \/ \E a \in Addrs : LoadAccount(a)
    \/ \E a \in {ALICE, CONTRACT}, k \in Keys : SLoad(a, k)
    \/ \E a \in {ALICE, CONTRACT}, k \in Keys, v \in {0, 1} : SStore(a, k, v)
    \/ WarmCoinbase(ALICE)

SpecWarm == InitWarm /\ [][NextWarm]_vars

\* Loads and stores of slots, also of an account created in the transaction,
\* across checkpoints and transactions.
InitStorage ==
    InitJournal(JournalInner_new(CANCUN, {PRECOMPILE}), MaxOpsStorage)

NextStorage ==
    \/ Checkpoint
    \/ CheckpointCommit
    \/ CheckpointRevert
    \/ CommitTx
    \/ \E a \in {ALICE, CONTRACT} : LoadAccount(a)
    \/ \E k \in Keys : SLoad(ALICE, k)
    \/ \E k \in Keys, v \in {0, 1} : SStore(ALICE, k, v)
    \/ CreateAccountCheckpoint(ALICE, ALICE, 0)
    \/ DiscardTx
    \/ BalanceIncr(ALICE, 1)

SpecStorage == InitStorage /\ [][NextStorage]_vars

\* Addresses warmed ahead of their load, with and without precompiles, across
\* the three transaction boundaries.
InitPreload ==
    \E pre \in {{}, {PRECOMPILE}} : InitJournal(JournalInner_new(CANCUN, pre), MaxOpsTx)

NextPreload ==
    \/ CommitTx
    \/ DiscardTx
    \/ Finalize
    \/ \E a \in Addrs : WarmAccount(a)
    \/ \E a \in Addrs : LoadAccount(a)
    \/ WarmCoinbase(ALICE)
    \/ Checkpoint
    \/ Log("log")
    \/ TStore(ALICE, "k1", 1)

SpecPreload == InitPreload /\ [][NextPreload]_vars

\* Nested checkpoints, committed and reverted, and transaction boundaries
\* around transfers that succeed and fail, balance increments, logs and
\* transient stores.
InitNested == InitJournal(JournalInner_new(CANCUN, {PRECOMPILE}), MaxOpsTx)

NextNested ==
    \/ Checkpoint
    \/ CheckpointCommit
    \/ CheckpointRevert
    \/ \E to \in Addrs, b \in {0, 1} : Transfer(ALICE, to, b)
    \/ BalanceIncr(ALICE, 1)
    \/ Log("log")
    \/ \E v \in {0, 1, 2} : TStore(ALICE, "k1", v)
    \/ CommitTx
    \/ DiscardTx

SpecNested == InitNested /\ [][NextNested]_vars

\* One call or create instruction of the contract's interpreter, on both
\* sides of TANGERINE, PETERSBURG, SHANGHAI and PRAGUE, after loads of the
\* accounts and a delegation of alice.
InitInstr ==
    \E f \in {HOMESTEAD, TANGERINE, CANCUN, PRAGUE} :
        InitJournal(JournalInner_new(f, {PRECOMPILE}), MaxOps)

NextInstr ==
    \/ \E a \in Addrs : LoadAccount(a)
    \/ SetCode(ALICE, DelegCode)
    \/ \E r \in Gases, s \in BOOLEAN, l \in GasLimits, to \in Addrs, v \in {0, 1},
          m \in {0, 3}, d \in BOOLEAN : Call(r, s, l, to, v, m, d)
    \/ \E r \in Gases, s \in BOOLEAN, l \in GasLimits, to \in Addrs, v \in {0, 1},
          m \in {0, 3}, d \in BOOLEAN : CallCode(r, s, l, to, v, m, d)
    \/ \E r \in Gases, s \in BOOLEAN, c2 \in BOOLEAN, v \in {0, 1}, n \in InitcodeLens,
          m \in {0, 3} : Create(r, s, c2, v, n, m)

SpecInstr == InitInstr /\ [][NextInstr]_vars

\* Call stacks: each frame runs one call or create instruction, and the frame
\* it requests runs the next, on both sides of BYZANTIUM.
InitStatic ==
    \E f \in {HOMESTEAD, CANCUN} : InitJournal(JournalInner_new(f, {PRECOMPILE}), MaxOps)

NextStatic ==
    \E instr \in Instrs, s \in BOOLEAN, l \in {300, U64_MAX}, to \in Addrs, v \in {0, 1} :
        FrameInstr(instr, 100000, s, l, to, v)

SpecStatic == InitStatic /\ [][NextStatic]_vars

\* Selfdestruct of accounts created in the transaction or before it, on both
\* sides of CANCUN, across checkpoints and transactions.
InitDestruct ==
    \E f \in {SPURIOUS_DRAGON, CANCUN} :
        InitJournal(JournalInner_new(f, {PRECOMPILE}), MaxOpsTx)

NextDestruct ==
    \/ Checkpoint
    \/ CheckpointRevert
    \/ CommitTx
    \/ \E a \in Addrs : LoadAccount(a)
    \/ \E t \in {ALICE, PRECOMPILE}, b \in {0, 1} : CreateAccountCheckpoint(ALICE, t, b)
    \/ \E a \in Addrs, t \in Addrs : SelfDestruct(a, t)

SpecDestruct == InitDestruct /\ [][NextDestruct]_vars

----------------------------------------------------------------------------
(* The handler: Handler::run and Handler::run_system_call *)

\* What the transaction pays for its gas limit: within the caller's balance,
\* or beyond it.
TxFees == {1, U256_MAX}

\* The transaction's caller, the candidates for its target (a contract, and an
\* account without code) and for the block's beneficiary.  The transaction
\* carries no value.
TxCaller == ALICE
SYSTEM_ADDRESS == "system"
TxTargets == {CONTRACT, ALICE}
Beneficiaries == {ALICE, CONTRACT}

\* run_without_catch_error without `self.validate(evm)?`.
run_without_validate(phase) ==
    CASE phase = "begin" -> "pre_execution"
      [] phase = "pre_execution" -> "execution"
      [] phase = "execution" -> "post_execution"
      [] phase = "post_execution" -> "execution_result"
      [] phase = "execution_result" -> "return"

\* run_without_catch_error: the phase that follows `phase` when it returns Ok
\* ("return" when the result of `phase` is the result of the run).
run_without_catch_error(phase) ==
    CASE phase = "begin" -> "validate"
      [] phase = "validate" -> "pre_execution"
      [] phase = "pre_execution" -> "execution"
      [] phase = "execution" -> "post_execution"
      [] phase = "post_execution" -> "execution_result"
      [] phase = "execution_result" -> "return"

\* run_system_call with the order of the run of a transaction.
run_system_call_as_run(phase) ==
    CASE phase = "begin" -> "execution"
      [] phase = "execution" -> "post_execution"
      [] phase = "post_execution" -> "execution_result"
      [] phase = "execution_result" -> "return"

\* run_system_call: execution, and then execution_result.
run_system_call(phase) ==
    CASE phase = "begin" -> "execution"
      [] phase = "execution" -> "execution_result"
      [] phase = "execution_result" -> "return"

\* The phase after `phase` in the mode of handler state h.
NextPhase(h, phase) ==
    IF h.mode = "run" THEN run_without_catch_error(phase) ELSE run_system_call(phase)

\* A phase begins: it is recorded as having run.
Enter(h, phase) == [h EXCEPT !.phases = Append(@, phase)]

\* `phase` returns Ok: the next phase, or the run returns Ok (Handler::run,
\* `Ok(output) => Ok(output)`).
PhaseOk(h, phase) ==
    LET n == NextPhase(h, phase)
    IN  IF n = "return" THEN [h EXCEPT !.pc = "done", !.result = "Ok"]
        ELSE [h EXCEPT !.pc = n]

\* `phase` returns Err(e): the `?` returns it from the run, and Handler::run
\* hands it to catch_error.
PhaseErr(h, phase, e) ==
    [h EXCEPT !.pc = "catch_error", !.error = Some(e), !.failed = phase]

\* Handler::validate: validate_env, then validate_initial_tx_gas.
validate(env_ok, gas_ok) ==
    IF ~env_ok THEN "InvalidTransaction"
    ELSE IF ~gas_ok THEN "CallGasCostMoreThanGasLimit"
    ELSE "Ok"

\* pre_execution::validate_against_state_and_deduct_caller: loads the caller,
\* checks its balance against the fee, deducts the fee and bumps the nonce.
validate_against_state_and_deduct_caller(j, caller, fee, db_fails) ==
    IF db_fails THEN [j |-> j, res |-> "Db"]
    ELSE LET j1 == load_account(j, caller).j
             old_balance == j1.state[caller].info.balance
         IN  IF old_balance < fee
             THEN [j |-> j1, res |-> "LackOfFundForMaxFee"]
             ELSE [j |-> caller_accounting_journal_entry(
                             [j1 EXCEPT !.state[caller] = mark_touch(
                                  [@ EXCEPT !.info.balance = old_balance - fee,
                                            !.info.nonce = saturating_add(@, 1)])],
                             caller, old_balance, TRUE),
                   res |-> "Ok"]

\* pre_execution::load_accounts: the beneficiary is warm from Shanghai on
\* (EIP-3651); the access list is empty.
load_accounts(j, beneficiary, db_fails) ==
    IF db_fails THEN [j |-> j, res |-> "Db"]
    ELSE [j |-> IF is_enabled_in(j.spec, SHANGHAI)
                THEN [j EXCEPT !.warm_coinbase_address = beneficiary]
                ELSE j,
          res |-> "Ok"]

\* Handler::pre_execution; `fail` is the database call that fails, if any.  The
\* authorization list is empty.
pre_execution(j, caller, beneficiary, fee, fail) ==
    LET d == validate_against_state_and_deduct_caller(j, caller, fee, fail = "caller")
    IN  IF d.res # "Ok" THEN d
        ELSE load_accounts(d.j, beneficiary, fail = "beneficiary")

\* Handler::post_execution: refund and eip7623_check_gas_floor change the gas
\* only; reimburse_caller and reward_beneficiary increment balances.
post_execution(j, caller, beneficiary, reimbursed, reward, fail) ==
    IF fail = "caller" THEN [j |-> j, res |-> "Db"]
    ELSE LET j1 == balance_incr(j, caller, reimbursed)
         IN  IF fail = "beneficiary" THEN [j |-> j1, res |-> "Db"]
             ELSE [j |-> balance_incr(j1, beneficiary, reward), res |-> "Ok"]

\* The call after its value was transferred with outcome t, under checkpoint
\* cp: a transfer error reverts the checkpoint, a target without code commits
\* it, and neither pushes a frame; else the frame of the call is pushed.
\* `open` is the number of checkpoints the call leaves outstanding.
call_frame_after_transfer(t, cp, fs, target) ==
    IF t.error # "None"
    THEN [j |-> checkpoint_revert(t.j, cp), frame_stack |-> fs,
          res |-> "Result", ok |-> FALSE, open |-> 0]
    ELSE IF t.j.state[target].info.code_hash = KECCAK_EMPTY
    THEN [j |-> checkpoint_commit(t.j), frame_stack |-> fs,
          res |-> "Result", ok |-> TRUE, open |-> 0]
    ELSE [j |-> t.j,
          frame_stack |-> Append(fs, [target |-> target, checkpoint |-> cp]),
          res |-> "Item", ok |-> TRUE, open |-> 1]

\* The call under the checkpoint c it has taken: the value is transferred,
\* unless the database fails first.
make_call_frame(c, fs, caller, target, value, db_fails) ==
    IF db_fails
    THEN [j |-> c.j, frame_stack |-> fs, res |-> "Db", ok |-> FALSE, open |-> 1]
    ELSE call_frame_after_transfer(transfer(c.j, caller, target, value),
                                   c.checkpoint, fs, target)

\* EvmTr::frame_init for a call of `target` by `caller` with `value`: beyond
\* the call stack limit (MaxDepth here) the call fails at once; else a
\* checkpoint is taken for the frame of the call.
frame_init(j, fs, caller, target, value, db_fails) ==
    IF Len(fs) >= MaxDepth
    THEN [j |-> j, frame_stack |-> fs, res |-> "Result", ok |-> FALSE, open |-> 0]
    ELSE make_call_frame(checkpoint(j), fs, caller, target, value, db_fails)

\* The frame on top of the stack returns its result: its checkpoint is
\* committed when the result is ok and reverted otherwise, and
\* EvmTr::frame_return_result pops the frame.
frame_return_result(j, fs, ok) ==
    LET f == fs[Len(fs)]
    IN  [j |-> IF ok THEN checkpoint_commit(j) ELSE checkpoint_revert(j, f.checkpoint),
         frame_stack |-> SubSeq(fs, 1, Len(fs) - 1)]

\* Handler::execution_result: a deferred error of the context is taken out of
\* its slot (mem::replace with Ok) and returned; else the transaction is
\* committed and the frame stack cleared.
execution_result(h, j) ==
    IF h.ctx_error # "Ok"
    THEN [h |-> PhaseErr([h EXCEPT !.ctx_error = "Ok", !.drained = h.ctx_error],
                         "execution_result", h.ctx_error),
          j |-> j]
    ELSE [h |-> PhaseOk([h EXCEPT !.commits = @ + 1, !.frame_stack = <<>>],
                        "execution_result"),
          j |-> commit_tx(j)]

\* catch_error without `discard_tx()`.
catch_error_keeps_tx(h, j) ==
    [h |-> [h EXCEPT !.pc = "done", !.result = "Err", !.result_error = h.error,
                     !.frame_stack = <<>>],
     j |-> j]

\* Handler::catch_error: discards the transaction, clears the frame stack and
\* returns the error it was given.
catch_error(h, j) ==
    [h |-> [h EXCEPT !.pc = "done", !.result = "Err", !.result_error = h.error,
                     !.discards = @ + 1, !.frame_stack = <<>>],
     j |-> discard_tx(j)]

\* InstructionResult::is_ok and is_ok_or_revert: the results that end a frame
\* with success, and those that end it with success or a revert; every other
\* result is a halt.
is_ok(result) == result \in {"Stop", "Return", "SelfDestruct"}
is_ok_or_revert(result) ==
    is_ok(result) \/ result \in {"Revert", "CallTooDeep", "OutOfFunds"}

\* Gas::new_spent, Gas::erase_cost, Gas::record_refund and Gas::spent.
Gas_new_spent(limit) == [limit |-> limit, remaining |-> 0, refunded |-> 0]
erase_cost(gas_, returned) == [gas_ EXCEPT !.remaining = @ + returned]
record_refund(gas_, refund) == [gas_ EXCEPT !.refunded = @ + refund]
spent(gas_) == gas_.limit - gas_.remaining

\* last_frame_result that records the refund of a reverted frame too.
last_frame_result_refunds_revert(tx_gas_limit, frame_gas, instruction_result) ==
    IF instruction_result = "Revert"
    THEN record_refund(erase_cost(Gas_new_spent(tx_gas_limit), frame_gas.remaining),
                       frame_gas.refunded)
    ELSE IF is_ok(instruction_result)
    THEN record_refund(erase_cost(Gas_new_spent(tx_gas_limit), frame_gas.remaining),
                       frame_gas.refunded)
    ELSE IF is_ok_or_revert(instruction_result)
    THEN erase_cost(Gas_new_spent(tx_gas_limit), frame_gas.remaining)
    ELSE Gas_new_spent(tx_gas_limit)

\* Handler::last_frame_result: the gas of the result of the first frame, whose
\* gas was frame_gas, for a transaction with gas limit tx_gas_limit.
last_frame_result(tx_gas_limit, frame_gas, instruction_result) ==
    IF is_ok(instruction_result)
    THEN record_refund(erase_cost(Gas_new_spent(tx_gas_limit), frame_gas.remaining),
                       frame_gas.refunded)
    ELSE IF is_ok_or_revert(instruction_result)
    THEN erase_cost(Gas_new_spent(tx_gas_limit), frame_gas.remaining)
    ELSE Gas_new_spent(tx_gas_limit)

\* The handler state of a run that begins.
NewRun(mode, beneficiary, fee, ctx_error, tid) ==
    [pc |-> "begin", mode |-> mode, phases |-> <<>>, error |-> None,
     failed |-> "none", result |-> "none", result_error |-> None,
     ctx_error |-> ctx_error, drained |-> "none", frame_stack |-> <<>>,
     gas |-> MaxGas, commits |-> 0, discards |-> 0, tid0 |-> tid,
     beneficiary |-> beneficiary, fee |-> fee]

\* A step of the handler: the journal takes the fields of j, the handler
\* state is h, `open` checkpoints are added to the outstanding ones (-1: the
\* innermost is closed).
HandlerStep(h, j, op, open) ==
    /\ Install(j)
    /\ hs' = h
    /\ last' = [op |-> op]
    /\ cps' = IF open = 1
              THEN Append(cps, [checkpoint |-> [log_i |-> Len(logs),
                                                journal_i |-> Len(journal)],
                                snap |-> View(Self), loaded |-> loaded,
                                created |-> <<>>])
              ELSE IF open = -1 THEN SubSeq(cps, 1, Len(cps) - 1)
              ELSE cps
    /\ UNCHANGED <<loaded, tx_start, fuel>>

\* Handler::run or Handler::run_system_call is called.
RunBegin(mode, beneficiary, fee) ==
    /\ hs.pc \in {"idle", "done"}
    /\ transaction_id < MaxTx
    /\ LET h == NewRun(mode, beneficiary, fee, hs.ctx_error, transaction_id)
       IN  HandlerStep([h EXCEPT !.pc = NextPhase(h, "begin")], Self, "begin", 0)

Validate ==
    /\ hs.pc = "validate"
    /\ \E env_ok \in BOOLEAN, gas_ok \in BOOLEAN :
           LET r == validate(env_ok, gas_ok)
               h == Enter(hs, "validate")
           IN  HandlerStep(IF r = "Ok" THEN PhaseOk(h, "validate")
                           ELSE PhaseErr(h, "validate", r),
                           Self, "validate", 0)

PreExecution ==
    /\ hs.pc = "pre_execution"
    /\ \E fail \in {"none", "caller", "beneficiary"} :
        \E r \in {pre_execution(Self, TxCaller, hs.beneficiary, hs.fee, fail)} :
           LET h == Enter(hs, "pre_execution")
           IN  HandlerStep(IF r.res = "Ok" THEN PhaseOk(h, "pre_execution")
                           ELSE PhaseErr(h, "pre_execution", r.res),
                           r.j, "pre_execution", 0)

\* Handler::execution up to the loop of run_exec_loop: first_frame_input and
\* the frame_init of the first frame.  A first frame that yields a result is
\* the result of the execution (last_frame_result changes its gas only).
Execution ==
    /\ hs.pc = "execution"
    /\ \E db_fails \in BOOLEAN, target \in TxTargets :
        \E r \in {frame_init(Self, hs.frame_stack,
                             IF hs.mode = "run" THEN TxCaller ELSE SYSTEM_ADDRESS,
                             target, 0, db_fails)} :
           LET h == [Enter(hs, "execution") EXCEPT !.frame_stack = r.frame_stack]
           IN  HandlerStep(CASE r.res = "Db" -> PhaseErr(h, "execution", "Db")
                             [] r.res = "Result" -> PhaseOk(h, "execution")
                             [] r.res = "Item" -> [h EXCEPT !.pc = "exec_loop"],
                           r.j, "execution", r.open)

\* An iteration of the loop of run_exec_loop in which frame_run yields a call:
\* the frame on top of the stack calls `target` with `value`, and frame_init
\* pushes the frame of the call or yields its result, which the calling frame
\* takes (frame_return_result pops no frame that has not finished).
FrameCall(target, value, db_fails) ==
    /\ hs.pc = "exec_loop"
    /\ hs.gas > 0
    /\ \E r \in {frame_init(Self, hs.frame_stack,
                             hs.frame_stack[Len(hs.frame_stack)].target,
                             target, value, db_fails)} :
           LET h == [hs EXCEPT !.gas = @ - 1, !.frame_stack = r.frame_stack]
       IN  HandlerStep(IF r.res = "Db" THEN PhaseErr(h, "execution", "Db") ELSE h,
                       r.j, "frame_call", r.open)

\* An iteration that returns the result of any frame as the result of the
\* loop, without `if let Some(result) = evm.frame_return_result(result)?`.
FrameReturn_returns_early(stores, outcome) ==
    /\ hs.pc = "exec_loop"
    /\ stores => hs.gas > 0
    /\ \E j1 \in {IF stores
                    THEN sstore(Self, hs.frame_stack[Len(hs.frame_stack)].target,
                                "k1", 1).j
                    ELSE Self} :
        \E r \in {frame_return_result(j1, hs.frame_stack, outcome = "ok")} :
           LET h == [hs EXCEPT !.frame_stack = r.frame_stack,
                           !.gas = IF stores THEN @ - 1 ELSE @,
                           !.ctx_error = IF outcome \in {"Db", "Custom"} THEN outcome
                                         ELSE @]
       IN  HandlerStep(PhaseOk(h, "execution"), r.j, "frame_return", -1)

\* An iteration in which frame_run yields the result of the frame on top of
\* the stack, after the frame has stored to its slot or not.  A database or
\* custom error met by the interpreter is left in the context's error slot and
\* halts the frame.  The result of the first frame ends the execution
\* (last_frame_result changes its gas only).
FrameReturn(stores, outcome) ==
    /\ hs.pc = "exec_loop"
    /\ stores => hs.gas > 0
    /\ \E j1 \in {IF stores
                    THEN sstore(Self, hs.frame_stack[Len(hs.frame_stack)].target,
                                "k1", 1).j
                    ELSE Self} :
        \E r \in {frame_return_result(j1, hs.frame_stack, outcome = "ok")} :
           LET h == [hs EXCEPT !.frame_stack = r.frame_stack,
                           !.gas = IF stores THEN @ - 1 ELSE @,
                           !.ctx_error = IF outcome \in {"Db", "Custom"} THEN outcome
                                         ELSE @]
       IN  HandlerStep(IF r.frame_stack = <<>> THEN PhaseOk(h, "execution") ELSE h,
                       r.j, "frame_return", -1)

PostExecution ==
    /\ hs.pc = "post_execution"
    /\ \E reimbursed \in 0..hs.fee, fail \in {"none", "caller", "beneficiary"} :
        \E r \in {post_execution(Self, TxCaller, hs.beneficiary, reimbursed,
                                 hs.fee - reimbursed, fail)} :
           LET h == Enter(hs, "post_execution")
           IN  HandlerStep(IF r.res = "Ok" THEN PhaseOk(h, "post_execution")
                           ELSE PhaseErr(h, "post_execution", r.res),
                           r.j, "post_execution", 0)

\* A transaction boundary of the handler: the journal takes the fields of j.
HandlerBoundary(h, j, op) ==
    /\ Install(j)
    /\ hs' = h
    /\ last' = [op |-> op, before |-> Before, tx_start |-> tx_start,
                frames |-> Len(hs.frame_stack)]
    /\ cps' = IF j.transaction_id = transaction_id THEN cps ELSE <<>>
    /\ tx_start' = IF j.transaction_id = transaction_id THEN tx_start
                   ELSE View(j).accounts
    /\ UNCHANGED <<loaded, fuel>>

ExecutionResult ==
    /\ hs.pc = "execution_result"
    /\ \E r \in {execution_result(Enter(hs, "execution_result"), Self)} :
           HandlerBoundary(r.h, r.j, "execution_result")

CatchError ==
    /\ hs.pc = "catch_error"
    /\ \E r \in {catch_error(hs, Self)} :
           HandlerBoundary(r.h, r.j, "catch_error")

InitHandler ==
    InitJournal(JournalInner_new(CANCUN, {PRECOMPILE}), 0)

NextHandler ==
    \/ RunBegin("system", NoAddress, 0)
    \/ \E b \in Beneficiaries, f \in TxFees : RunBegin("run", b, f)
    \/ Validate
    \/ PreExecution
    \/ Execution
    \/ \E db_fails \in BOOLEAN : FrameCall(CONTRACT, 0, db_fails)
    \/ \E v \in {1, U256_MAX} : FrameCall(ALICE, v, FALSE)
    \/ \E stores \in BOOLEAN, outcome \in {"ok", "revert", "Db", "Custom"} :
           FrameReturn(stores, outcome)
    \/ PostExecution
    \/ ExecutionResult
    \/ CatchError

SpecHandler == InitHandler /\ [][NextHandler]_vars

\* The executor runs a transaction to its end: it is single-threaded and
\* nothing suspends it.
SpecHandlerFair == SpecHandler /\ WF_vars(NextHandler)

\* The gas limits of a transaction, the gas it pays before its first frame,
\* the gas the first frame uses, the refunds it collects and its results.
TxGasLimits == {21000, 100000}
InitialGases == {0, 21000}
GasUses == {0, 1, 5000, 79000}
Refunds == {0, 4800}
InstructionResults ==
    {"Stop", "Return", "SelfDestruct", "Revert", "CallTooDeep", "OutOfFunds",
     "OutOfGas", "CallNotAllowedInsideStatic", "FatalExternalError"}

\* Handler::execution from the result of the frame loop on: the first frame
\* was given tx.gas_limit - initial_gas, used `used` of it and collected
\* `refunded`; last_frame_result rewrites the gas of its result.
LastFrameResult(tx_gas_limit, initial_gas, used, refunded, instruction_result) ==
    /\ initial_gas <= tx_gas_limit
    /\ used <= tx_gas_limit - initial_gas
    /\ LET gas_limit == tx_gas_limit - initial_gas
           frame_gas == [limit |-> gas_limit, remaining |-> gas_limit - used,
                         refunded |-> refunded]
       IN  Step(Self, [op |-> "last_frame_result", tx_gas_limit |-> tx_gas_limit,
                       frame_gas |-> frame_gas, result |-> instruction_result,
                       gas |-> last_frame_result(tx_gas_limit, frame_gas,
                                                 instruction_result)])
    /\ UNCHANGED <<cps, loaded, tx_start, hs>>

\* The results of the first frame of a transaction.
InitGas == InitJournal(JournalInner_new(CANCUN, {PRECOMPILE}), 1)

NextGas ==
    \E l \in TxGasLimits, i \in InitialGases, u \in GasUses, r \in Refunds,
       res \in InstructionResults : LastFrameResult(l, i, u, r, res)

SpecGas == InitGas /\ [][NextGas]_vars

----------------------------------------------------------------------------
(* Claims about the journal *)

\* C1, revert soundness: right after checkpoint_revert(c) the account state
\* (balances, nonces, code hashes, storage values, status flags), the
\* transient storage and the logs are what they were right after c was taken,
\* whatever journaled operations ran in between.
C1_RevertSoundness ==
    last.op = "checkpoint_revert" => View(Self) = last.snap

\* The fields of an account that a discarded transaction must leave as they
\* were: balance, nonce, code hash, storage values, Created and Selfdestructed
\* flags.
Durable(v) ==
    [balance |-> v.balance, nonce |-> v.nonce, code_hash |-> v.code_hash,
     storage |-> v.storage,
     flags |-> v.status \cap {"Created", "CreatedLocal", "SelfDestructed",
                              "SelfDestructedLocal"}]

\* C2, atomic discard: right after discard_tx every account has the balance,
\* nonce, code hash, storage values and Created/Selfdestructed flags it had
\* when the discarded transaction began.
C2_AtomicDiscard ==
    last.op = "discard_tx" =>
        \A a \in Addrs : Durable(AccountView(Self, a)) = Durable(last.tx_start[a])

\* C3, transaction boundary: right after commit_tx or discard_tx, whatever
\* the depth, the journal, the logs and the transient storage were, depth is 0,
\* the journal, the logs and the transient storage are empty,
\* warm_coinbase_address is None and transaction_id is one more than before.
C3_TxBoundary ==
    last.op \in {"commit_tx", "discard_tx"} =>
        /\ depth = 0
        /\ journal = <<>>
        /\ logs = <<>>
        /\ transient_storage = EmptyTransient
        /\ warm_coinbase_address = NoAddress
        /\ transaction_id = last.before.transaction_id + 1

\* discard_tx has run with a checkpoint outstanding, a journal entry, a log, a
\* transient value and a warm coinbase.
C3_Witness ==
    /\ last.op = "discard_tx"
    /\ last.before.depth > 0
    /\ last.before.journal > 0
    /\ last.before.logs > 0
    /\ last.before.transient_storage # EmptyTransient
    /\ last.before.warm_coinbase_address # NoAddress

\* C4, depth: in every state depth is the number of outstanding checkpoints,
\* those taken by checkpoint or by a successful create_account_checkpoint in
\* the current transaction and not yet committed or reverted; a failed
\* create_account_checkpoint leaves it as it was, and it is never negative.
C4_DepthIsOutstanding ==
    /\ depth = Len(cps)
    /\ depth >= 0

\* create_account_checkpoint has failed below an outstanding checkpoint.
C4_Witness ==
    /\ last.op = "create_account_checkpoint"
    /\ last.result # "Ok"
    /\ depth >= 1
    /\ Len(cps) = depth

\* C9, cold load: the first load_account of an address in a transaction
\* reports is_cold = false exactly when the address is in
\* warm_preloaded_addresses or is warm_coinbase_address, also when the account
\* is in the state from an earlier transaction; and every load_account appends
\* AccountWarmed exactly when it reports is_cold = true.
C9_ColdIffNotPreloaded ==
    last.op = "load_account" =>
        /\ ~last.was_loaded => (~last.is_cold <=> last.preloaded)
        /\ last.pushed = IF last.is_cold THEN <<account_warmed(last.address)>> ELSE <<>>

\* C10, warm stays warm: a load_account of an address, or an sload of a slot,
\* that was already loaded in the current transaction, by a load no
\* checkpoint_revert has undone, reports is_cold = false and appends no entry.
C10_WarmStaysWarm ==
    (last.op \in {"load_account", "sload"} /\ last.was_loaded) =>
        /\ ~last.is_cold
        /\ last.pushed = <<>>

----------------------------------------------------------------------------
(* Claims about the handler *)

IsPrefix(s, t) == Len(s) <= Len(t) /\ s = SubSeq(t, 1, Len(s))

\* A run is under way.
Running == hs.pc \notin {"idle", "done"}

\* While a run is under way the journal has seen no transaction boundary;
\* when it has returned there was exactly one, commit_tx when it returned Ok
\* and discard_tx when it returned Err, transaction_id is one more than when
\* the run began, and the frame stack is empty.
OneBoundary ==
    /\ Running => /\ hs.commits = 0
                  /\ hs.discards = 0
                  /\ transaction_id = hs.tid0
    /\ hs.pc = "done" =>
           /\ hs.result \in {"Ok", "Err"}
           /\ hs.result = "Ok" => (hs.commits = 1 /\ hs.discards = 0)
           /\ hs.result = "Err" => (hs.commits = 0 /\ hs.discards = 1)
           /\ transaction_id = hs.tid0 + 1
           /\ hs.frame_stack = <<>>
           /\ journal = <<>>
           /\ depth = 0

\* C5, one boundary per run: every run of Handler::run or
\* Handler::run_system_call returns, and when it has returned the journal has
\* seen exactly one transaction boundary of that run, commit_tx if it returned
\* Ok and discard_tx if it returned Err; transaction_id has grown by one and
\* the frame stack is empty.
C5_OneBoundaryPerRun ==
    /\ []OneBoundary
    /\ (Running ~> hs.pc = "done")

\* A run has returned an error met with a frame on the stack and a
\* checkpoint outstanding.
C5_Witness ==
    /\ hs.pc = "done"
    /\ hs.result = "Err"
    /\ hs.discards = 1
    /\ last.op = "catch_error"
    /\ last.frames > 0
    /\ last.before.depth > 0

RunOrder ==
    <<"validate", "pre_execution", "execution", "post_execution", "execution_result">>

\* C6, phase order: in Handler::run the phases that have run are a prefix of
\* validate, pre_execution, execution, post_execution, execution_result, each
\* at most once; after a phase has returned an error it stays the last phase
\* that ran, only catch_error follows, and the run returns that error.
C6_PhaseOrder ==
    hs.mode = "run" =>
        /\ IsPrefix(hs.phases, RunOrder)
        /\ hs.failed # "none" =>
               /\ hs.pc \in {"catch_error", "done"}
               /\ hs.phases # <<>>
               /\ hs.phases[Len(hs.phases)] = hs.failed
               /\ hs.commits = 0
        /\ (hs.pc = "done" /\ hs.result = "Err") =>
               /\ hs.failed # "none"
               /\ hs.result_error = hs.error
               /\ hs.discards = 1
        /\ (hs.pc = "done" /\ hs.result = "Ok") =>
               /\ hs.failed = "none"
               /\ hs.phases = RunOrder

\* Handler::run has returned the error of post_execution.
C6_Witness ==
    /\ hs.mode = "run"
    /\ hs.pc = "done"
    /\ hs.failed = "post_execution"
    /\ hs.phases = SubSeq(RunOrder, 1, 4)
    /\ hs.result = "Err"
    /\ hs.result_error = Some("Db")

\* C7, deferred error: when execution_result found an error in the context's
\* error slot, the run returns that error, the slot holds Ok, commit_tx was
\* not called, and every account has the balance, nonce, code hash, storage
\* values and Created/Selfdestructed flags it had when the transaction began.
C7_DeferredError ==
    (hs.pc = "done" /\ hs.drained # "none") =>
        /\ hs.result = "Err"
        /\ hs.result_error = Some(hs.drained)
        /\ hs.ctx_error = "Ok"
        /\ hs.commits = 0
        /\ hs.discards = 1
        /\ \A a \in Addrs : Durable(AccountView(Self, a)) = Durable(last.tx_start[a])

\* C7 without the state of the accounts: the run returns the deferred error,
\* the slot holds Ok, and the transaction is discarded and not committed.
C7_ErrorReturned ==
    (hs.pc = "done" /\ hs.drained # "none") =>
        /\ hs.result = "Err"
        /\ hs.result_error = Some(hs.drained)
        /\ hs.ctx_error = "Ok"
        /\ hs.commits = 0
        /\ hs.discards = 1

\* C8, system call: Handler::run_system_call runs execution and then
\* execution_result and no other phase; the caller is not charged, no nonce is
\* bumped, nobody is reimbursed or rewarded and no beneficiary is warmed; an
\* error of either phase goes to catch_error, which discards the transaction
\* and returns the error.
C8_SystemCall ==
    hs.mode = "system" =>
        /\ IsPrefix(hs.phases, <<"execution", "execution_result">>)
        /\ \A i \in 1..Len(journal) :
               journal[i].tag \notin {"BalanceChanged", "NonceChanged"}
        /\ warm_coinbase_address = NoAddress
        /\ hs.failed # "none" =>
               /\ hs.pc \in {"catch_error", "done"}
               /\ hs.commits = 0
        /\ (hs.pc = "done" /\ hs.result = "Err") =>
               /\ hs.failed \in {"execution", "execution_result"}
               /\ hs.result_error = hs.error
               /\ hs.discards = 1
        /\ (hs.pc = "done" /\ hs.result = "Ok") =>
               /\ hs.failed = "none"
               /\ hs.phases = <<"execution", "execution_result">>

\* Handler::run_system_call has returned the error of execution_result.
C8_Witness ==
    /\ hs.mode = "system"
    /\ hs.pc = "done"
    /\ hs.failed = "execution_result"
    /\ hs.phases = <<"execution", "execution_result">>
    /\ hs.result = "Err"
    /\ hs.discards = 1

----------------------------------------------------------------------------
(* Claims about storage, transfers and the creation of accounts *)

\* C11, storage original stability: as long as a slot stays loaded in a
\* transaction (no checkpoint_revert undoes its first access and no
\* transaction boundary passes), no operation changes its original_value.
C11_OriginalStable ==
    [][\A a \in Addrs, k \in Keys :
          (/\ <<a, k>> \in loaded.slots
           /\ <<a, k>> \in loaded'.slots
           /\ transaction_id' = transaction_id) =>
              /\ a \in DOMAIN state'
              /\ k \in DOMAIN state'[a].storage
              /\ state'[a].storage[k].original_value =
                     state[a].storage[k].original_value]_vars

\* An sstore has changed the present value of a slot that was already loaded,
\* to a value that is not the slot's original value.
C11_Witness ==
    /\ last.op = "sstore"
    /\ ~last.res.is_cold
    /\ last.res.present_value # last.res.new_value
    /\ last.res.original_value # last.res.new_value
    /\ state[last.address].storage[last.key].original_value = last.res.original_value

\* C12, original value: the original_value an sstore returns is the value the
\* slot had when the current transaction began, also when an earlier
\* committed transaction of the session changed the slot.
C12_OriginalIsTxStart ==
    last.op = "sstore" =>
        last.res.original_value = tx_start[last.address].storage[last.key]

\* C13, failed transfer: a transfer that returns OutOfFunds or OverflowPayment
\* changes neither from.balance nor to.balance and appends no BalanceTransfer
\* entry; and when the surrounding checkpoint is reverted right after it, the
\* journal is cut back to the checkpoint and both balances are those the
\* checkpoint saw.
C13_FailedTransferNoChange ==
    [][/\ (last'.op = "transfer" /\ last'.error # "None") =>
              /\ \A a \in {last'.from, last'.to} :
                     AccountOf(Self', a).info.balance = AccountOf(Self, a).info.balance
              /\ \A i \in (Len(journal) + 1)..Len(journal') :
                     journal'[i].tag # "BalanceTransfer"
       /\ (/\ last.op = "transfer"
           /\ last.error # "None"
           /\ last'.op = "checkpoint_revert") =>
              /\ Len(journal') = last'.checkpoint.journal_i
              /\ \A a \in {last.from, last.to} :
                     AccountOf(Self', a).info.balance = last'.snap.accounts[a].balance]_vars

\* C14, failed create: when create_account_checkpoint returns Err (OutOfFunds,
\* CreateCollision or OverflowPayment) the depth, the length of the journal,
\* the logs, the balances of caller and target and the target's nonce and
\* Touched and Created flags are what they were before the call.
C14_FailedCreateReverted ==
    [][(last'.op = "create_account_checkpoint" /\ last'.result # "Ok") =>
          /\ depth' = depth
          /\ Len(journal') = Len(journal)
          /\ logs' = logs
          /\ \A a \in {last'.caller, last'.target} :
                 state'[a].info.balance = state[a].info.balance
          /\ state'[last'.target].info.nonce = state[last'.target].info.nonce
          /\ state'[last'.target].status \cap {"Touched", "Created", "CreatedLocal"} =
                 state[last'.target].status \cap {"Touched", "Created", "CreatedLocal"}]_vars

C16_SelfdestructEip6780 ==
    [][(last'.op = "selfdestruct" /\ last'.address # last'.target) =>
          LET A == last'.address
              T == last'.target
              balance == state[A].info.balance
              loaded_T == load_account(Self, T).j.state[T]
              flags == {"SelfDestructed", "SelfDestructedLocal"}
              entry == journal'[Len(journal')]
          IN  /\ state'[T].info.balance = wrapping_add(loaded_T.info.balance, balance)
              /\ state'[A].info.balance = 0
              /\ Len(journal') > Len(journal)
              /\ IF is_enabled_in(spec, CANCUN) /\ ~is_created_locally(state[A])
                 THEN /\ state'[A].status \cap flags = state[A].status \cap flags
                      /\ entry = balance_transfer(A, T, balance)
                      /\ \A i \in (Len(journal) + 1)..Len(journal') :
                             journal'[i].tag # "AccountDestroyed"
                 ELSE /\ is_selfdestructed_locally(state'[A])
                      /\ entry.tag = "AccountDestroyed"
                      /\ entry.address = A
                      /\ entry.target = T
                      /\ entry.had_balance = balance]_vars

\* From CANCUN on, an account not created in the transaction has selfdestructed
\* to another account and its balance, not zero, went there.
C16_Witness ==
    /\ last.op = "selfdestruct"
    /\ last.address # last.target
    /\ is_enabled_in(spec, CANCUN)
    /\ last.res.had_value
    /\ ~is_selfdestructed_locally(state[last.address])
    /\ journal[Len(journal)].tag = "BalanceTransfer"
    /\ state[last.target].info.balance > 0

\* C17, first sload: the first sload of a slot in a transaction returns
\* is_cold = true, the value the Database supplies (zero when the account is
\* created) and appends exactly one StorageWarmed entry; every following sload
\* of the slot returns is_cold = false and the slot's value and appends
\* nothing.
C17_FirstSloadFromDatabase ==
    [][last'.op = "sload" =>
          LET a == last'.address
              k == last'.key
          IN  IF ~last'.was_loaded
              THEN /\ last'.is_cold
                   /\ last'.value = IF is_created(state[a]) THEN 0 ELSE DbStorage(a, k)
                   /\ last'.pushed = <<storage_warmed(a, k)>>
              ELSE /\ ~last'.is_cold
                   /\ last'.value = state[a].storage[k].present_value
                   /\ last'.pushed = <<>>]_vars

\* C17 as amended: the value of the first sload is the slot's present value
\* when the slot is in the account's storage from an earlier transaction, and
\* otherwise the value the Database supplies (zero when the account is
\* created).
C17_SloadColdThenWarm ==
    [][last'.op = "sload" =>
          LET a == last'.address
              k == last'.key
          IN  IF ~last'.was_loaded
              THEN /\ last'.is_cold
                   /\ last'.value =
                          IF k \in DOMAIN state[a].storage
                          THEN state[a].storage[k].present_value
                          ELSE IF is_created(state[a]) THEN 0 ELSE DbStorage(a, k)
                   /\ last'.pushed = <<storage_warmed(a, k)>>
              ELSE /\ ~last'.is_cold
                   /\ last'.value = state[a].storage[k].present_value
                   /\ last'.pushed = <<>>]_vars

\* The first sload of a transaction has returned, cold, a value an earlier
\* transaction committed, which is not the value of the Database.
C17_Witness ==
    /\ last.op = "sload"
    /\ ~last.was_loaded
    /\ last.is_cold
    /\ transaction_id > 0
    /\ last.value # DbStorage(last.address, last.key)
    /\ ~is_created(state[last.address])

\* C18, sstore and revert: when the first access to a slot after a checkpoint
\* is an sstore, on an account that is not created, and the checkpoint is then
\* reverted, the next sload of the slot returns the value the slot had before
\* the sstore and is cold again.
C18_SstoreRevertRestores ==
    [][(/\ last.op = "sstore"
        /\ last.res.is_cold
        /\ ~is_created(state[last.address])
        /\ cps # <<>>
        /\ <<last.address, last.key>> \notin cps[Len(cps)].loaded.slots
        /\ last'.op = "checkpoint_revert") =>
          LET r == sload(Self', last.address, last.key)
          IN  /\ r.value = last.res.present_value
              /\ r.is_cold]_vars

\* C19, precompile warming: warm_preloaded_addresses contains every precompile
\* in every reachable state, and right after commit_tx, discard_tx or finalize
\* it equals precompiles, whatever was added to it during the transaction.
C19_PrecompilesWarm ==
    /\ precompiles \subseteq warm_preloaded_addresses
    /\ last.op \in {"commit_tx", "discard_tx", "finalize"} =>
           warm_preloaded_addresses = precompiles

\* A boundary has reset a set that held an address other than the precompiles.
C19_Witness ==
    /\ last.op \in {"commit_tx", "discard_tx", "finalize"}
    /\ precompiles # {}
    /\ last.before.warm_preloaded_addresses # precompiles
    /\ warm_preloaded_addresses = precompiles

\* C20, commit keeps the state: every account present before commit_tx is
\* present after it with the same balance, nonce, code hash and present
\* values of its storage, and a later sload of a slot it holds returns the
\* committed value.
C20_CommitKeepsState ==
    [][last'.op = "commit_tx" =>
          /\ DOMAIN state \subseteq DOMAIN state'
          /\ \A a \in DOMAIN state :
                 /\ state'[a].info.balance = state[a].info.balance
                 /\ state'[a].info.nonce = state[a].info.nonce
                 /\ state'[a].info.code_hash = state[a].info.code_hash
                 /\ DOMAIN state[a].storage \subseteq DOMAIN state'[a].storage
                 /\ \A k \in DOMAIN state[a].storage :
                        /\ state'[a].storage[k].present_value =
                               state[a].storage[k].present_value
                        /\ sload(Self', a, k).value = state[a].storage[k].present_value]_vars

\* A transaction that wrote a slot, changed a balance and created an account
\* has been committed.
C20_Witness ==
    /\ last.op = "commit_tx"
    /\ ALICE \in DOMAIN state
    /\ \E k \in DOMAIN state[ALICE].storage :
           state[ALICE].storage[k].present_value # DbStorage(ALICE, k)
    /\ state[ALICE].info.balance # unwrap(DbBasic(ALICE)).balance
    /\ state[ALICE].info.nonce # unwrap(DbBasic(ALICE)).nonce

----------------------------------------------------------------------------
(* Claims about finalize, the call and create instructions, checkpoints, *)
(* selfdestruct and sstore                                                *)

\* C21, finalize: finalize returns the account state held before the call and
\* leaves state, journal, logs and transient_storage empty, depth 0,
\* warm_coinbase_address None and transaction_id 0; spec and precompiles are
\* unchanged.
C21_FinalizeTakesState ==
    [][last'.op = "finalize" =>
          /\ last'.state = state
          /\ state' = EmptyMap
          /\ journal' = <<>>
          /\ logs' = <<>>
          /\ transient_storage' = EmptyTransient
          /\ depth' = 0
          /\ warm_coinbase_address' = NoAddress
          /\ transaction_id' = 0
          /\ spec' = spec
          /\ precompiles' = precompiles]_vars

\* finalize has run in a later transaction of a session, with accounts,
\* journal entries, logs and transient storage to clear.
C21_Witness ==
    /\ last.op = "finalize"
    /\ last.state # EmptyMap
    /\ last.before.transaction_id > 0
    /\ last.before.journal > 0
    /\ last.before.logs > 0
    /\ last.before.transient_storage # EmptyTransient
    /\ precompiles # {}

\* C22, static context: in a static context CREATE and CREATE2 halt, and CALL
\* with a value other than zero halts with CallNotAllowedInsideStatic; no
\* frame is requested, and the CALL neither loads nor warms its target and
\* charges no gas.
C22_StaticHalts ==
    [][/\ (last'.op = "create" /\ last'.interp.is_static) =>
              /\ last'.after.result # "None"
              /\ last'.after.action = None
       /\ (last'.op = "call" /\ last'.interp.is_static /\ last'.value # 0) =>
              /\ last'.after.result = "CallNotAllowedInsideStatic"
              /\ last'.after.action = None
              /\ last'.after.remaining = last'.interp.remaining
              /\ state' = state
              /\ journal' = journal
              /\ warm_preloaded_addresses' = warm_preloaded_addresses]_vars

\* A CALL with value in a static context has halted, with gas enough for the
\* call, on a target that is not loaded.
C22_Witness ==
    /\ last.op = "call"
    /\ last.interp.is_static
    /\ last.value # 0
    /\ last.interp.remaining = 100000
    /\ last.to \notin DOMAIN state
    /\ last.after.result = "CallNotAllowedInsideStatic"

\* The gas a CALL or CALLCODE of interpreter i has left after the memory and,
\* for the account load al, the call cost are charged.
AfterCallCost(i, al, value, mem_cost) ==
    i.remaining - mem_cost - call_cost(i.spec_id, value # 0, al)

\* The gas limit of the child as EIP-150 caps it.
CappedLimit(spec_id, r, local_gas_limit) ==
    IF is_enabled_in(spec_id, TANGERINE)
    THEN IF r - r \div 64 < local_gas_limit THEN r - r \div 64 ELSE local_gas_limit
    ELSE local_gas_limit

\* C23, call gas: with r the gas of the parent after the call cost, the gas
\* limit of the child of a CALL is min(local_gas_limit, r - r/64) from TANGERINE
\* on and local_gas_limit before, where the instruction halts out of gas when
\* that exceeds r; the parent is charged that amount, and the child is given
\* CALL_STIPEND on top exactly when value is not zero.
C23_CallGas ==
    [][(/\ last'.op = "call"
        /\ ~(last'.interp.is_static /\ last'.value # 0)
        /\ ~last'.db_fails
        /\ AfterCallCost(last'.interp, load_account_delegated(Self, last'.to),
                         last'.value, last'.mem_cost) >= 0) =>
          LET r == AfterCallCost(last'.interp, load_account_delegated(Self, last'.to),
                                 last'.value, last'.mem_cost)
              limit == CappedLimit(last'.interp.spec_id, r, last'.local_gas_limit)
          IN  IF limit > r
              THEN /\ ~is_enabled_in(last'.interp.spec_id, TANGERINE)
                   /\ last'.after.result = "OutOfGas"
                   /\ last'.after.action = None
              ELSE /\ last'.after.result = "None"
                   /\ is_some(last'.after.action)
                   /\ last'.after.remaining = r - limit
                   /\ unwrap(last'.after.action).gas_limit =
                          IF last'.value # 0 THEN limit + CALL_STIPEND ELSE limit]_vars

\* A CALL with value has requested a frame whose gas limit EIP-150 capped
\* below the limit asked for.
C23_Witness ==
    /\ last.op = "call"
    /\ last.value # 0
    /\ is_enabled_in(last.interp.spec_id, TANGERINE)
    /\ is_some(last.after.action)
    /\ last.local_gas_limit = U64_MAX
    /\ unwrap(last.after.action).gas_limit > CALL_STIPEND
    /\ last.after.remaining > 0

\* The gas a CREATE or CREATE2 of interpreter i has left after the initcode,
\* memory and base costs are charged.
AfterCreateCosts(i, IS_CREATE2, len, mem_cost) ==
    i.remaining
    - (IF len # 0 /\ is_enabled_in(i.spec_id, SHANGHAI) THEN 2 * ((len + 31) \div 32) ELSE 0)
    - (IF len # 0 THEN mem_cost ELSE 0)
    - (IF IS_CREATE2 THEN CREATE + 6 * ((len + 31) \div 32) ELSE CREATE)

\* C24, create gas: with r the gas of the parent after the initcode and base
\* costs, the gas limit of the child of CREATE and CREATE2 is r - r/64 from
\* TANGERINE on, the parent keeping r/64, and all of r before, the parent
\* keeping nothing; the two always add up to r.
C24_CreateGas ==
    [][(/\ last'.op = "create"
        /\ is_some(last'.after.action)) =>
          LET r == AfterCreateCosts(last'.interp, last'.IS_CREATE2, last'.len,
                                    last'.mem_cost)
              child == unwrap(last'.after.action).gas_limit
          IN  /\ r >= 0
              /\ child + last'.after.remaining = r
              /\ IF is_enabled_in(last'.interp.spec_id, TANGERINE)
                 THEN child = r - r \div 64 /\ last'.after.remaining = r \div 64
                 ELSE child = r /\ last'.after.remaining = 0]_vars

\* A CREATE2 with initcode has requested a frame from TANGERINE on and kept
\* a 64th of its gas.
C24_Witness ==
    /\ last.op = "create"
    /\ last.IS_CREATE2
    /\ last.len # 0
    /\ is_some(last.after.action)
    /\ is_enabled_in(last.interp.spec_id, SHANGHAI)
    /\ last.after.remaining > 0

\* The account load of a CALLCODE: is_empty is forced to false.
CallCodeLoad(j, to) == [load_account_delegated(j, to) EXCEPT !.is_empty = FALSE]

\* What a CALLCODE recorded in l, run from journal j, does once its account
\* is loaded: the gas cap and the stipend rule of CALL, a frame whose
\* target_address is the current target and whose code is that of `to`.
CallCodeGasAndFrame(l, j) ==
    LET r == AfterCallCost(l.interp, CallCodeLoad(j, l.to), l.value, l.mem_cost)
        limit == CappedLimit(l.interp.spec_id, r, l.local_gas_limit)
    IN  (~l.db_fails /\ r >= 0) =>
            IF limit > r
            THEN l.after.result = "OutOfGas" /\ l.after.action = None
            ELSE /\ l.after.result = "None"
                 /\ l.after.remaining = r - limit
                 /\ l.after.action = Some(
                        [frame |-> "Call",
                         gas_limit |-> IF l.value # 0 THEN limit + CALL_STIPEND ELSE limit,
                         target_address |-> l.interp.target_address,
                         caller |-> l.interp.target_address,
                         bytecode_address |-> l.to,
                         value |-> l.value, scheme |-> "CallCode",
                         is_static |-> l.interp.is_static])

\* The result of a CALL with its frame, if any, turned into that of a CALLCODE.
AsCallCode(i) ==
    IF is_some(i.action)
    THEN [i EXCEPT !.action = Some([unwrap(i.action) EXCEPT
                                       !.target_address = i.target_address,
                                       !.scheme = "CallCode"])]
    ELSE i

\* On an account that is not empty, and outside the static halt of CALL, a
\* CALLCODE recorded in l, run from journal j, ends as the CALL with the same
\* operands does, target_address and scheme apart.
CallCodeAsCall(l, j) ==
    (~(l.interp.is_static /\ l.value # 0)
     /\ (l.db_fails \/ ~load_account_delegated(j, l.to).is_empty)) =>
        l.after = AsCallCode(call(l.interp, j, l.local_gas_limit, l.to, l.value,
                                  l.mem_cost, l.db_fails).i)

\* C25, callcode like call: CALLCODE is handled like CALL, with the halt
\* CallNotAllowedInsideStatic in a static context when value is not zero, the
\* gas cap and the stipend rule; it differs in target_address, the current
\* target, and in is_empty, forced to false.
C25_CallCodeLikeCall ==
    [][last'.op = "call_code" =>
          IF last'.interp.is_static /\ last'.value # 0
          THEN /\ last'.after.result = "CallNotAllowedInsideStatic"
               /\ last'.after.action = None
          ELSE /\ CallCodeGasAndFrame(last', Self)
               /\ CallCodeAsCall(last', Self)]_vars

\* C25 as amended: CALLCODE has no static halt; in a static context with a
\* value other than zero it loads the account, charges the gas and requests
\* the frame as in any other context.  The gas cap, the stipend rule,
\* target_address and is_empty are as stated.
C25_CallCodeNoStaticHalt ==
    [][last'.op = "call_code" =>
          /\ last'.after.result # "CallNotAllowedInsideStatic"
          /\ CallCodeGasAndFrame(last', Self)
          /\ CallCodeAsCall(last', Self)]_vars

\* A CALLCODE with value in a static context has requested a frame.
C25_Witness ==
    /\ last.op = "call_code"
    /\ last.interp.is_static
    /\ last.value # 0
    /\ is_some(last.after.action)
    /\ unwrap(last.after.action).target_address = CONTRACT
    /\ last.to # CONTRACT

\* C26, commit keeps the entries: checkpoint_commit discards no journal entry
\* and no log, and when the enclosing checkpoint is reverted after an inner
\* checkpoint was committed, the account state, the transient storage and the
\* logs are again what they were when the enclosing checkpoint was taken: the
\* mutations and logs of the committed window are undone as well.
C26_CommitKeepsEntries ==
    [][/\ last'.op = "checkpoint_commit" =>
              /\ journal' = journal
              /\ logs' = logs
       /\ (last.op = "checkpoint_commit" /\ last'.op = "checkpoint_revert") =>
              /\ View(Self') = last'.snap
              /\ Len(journal') = last'.checkpoint.journal_i
              /\ Len(logs') = last'.checkpoint.log_i]_vars

\* C27, an inner revert keeps the parent's work: checkpoint_revert of a child
\* checkpoint taken after the parent journaled something keeps exactly the
\* first journal_i entries of the journal and the first log_i logs, in their
\* order, and leaves the account state and the transient storage as the parent
\* had made them when the child's checkpoint was taken.
C27_InnerRevertKeepsParent ==
    [][(last'.op = "checkpoint_revert" /\ last'.checkpoint.journal_i > 0) =>
           /\ journal' = SubSeq(journal, 1, last'.checkpoint.journal_i)
           /\ logs' = SubSeq(logs, 1, last'.checkpoint.log_i)
           /\ View(Self') = last'.snap]_vars

\* The AccountDestroyed entries of address a in a journal: the selfdestructs of
\* a in the current transaction that no checkpoint_revert has undone.
DestroyedInTx(jn, a) ==
    {i \in 1..Len(jn) : jn[i].tag = "AccountDestroyed" /\ jn[i].address = a}

\* C28, selfdestruct status: previously_destroyed is true exactly when the
\* account was already selfdestructed in the current transaction by a
\* selfdestruct that no checkpoint_revert has undone, and the AccountDestroyed
\* entry it appends carries RepeatedSelfdestruction in that case,
\* LocallySelfdestroyed when the account was selfdestructed only in an earlier
\* transaction, and GloballySelfdestroyed when it never was.
C28_SelfdestructStatus ==
    [][last'.op = "selfdestruct" =>
          LET A == last'.address
              repeated == DestroyedInTx(journal, A) # {}
              earlier == "SelfDestructed" \in tx_start[A].status
              entry == journal'[Len(journal')]
          IN  /\ last'.res.previously_destroyed = repeated
              /\ DestroyedInTx(journal', A) # DestroyedInTx(journal, A) =>
                     entry.destroyed_status =
                         IF repeated THEN "RepeatedSelfdestruction"
                         ELSE IF earlier THEN "LocallySelfdestroyed"
                         ELSE "GloballySelfdestroyed"]_vars

\* The entries a step has appended to the journal.
Appended(jn, jn2) == {jn2[i] : i \in (Len(jn) + 1)..Len(jn2)}

\* The AccountDestroyed entries with address = target among the entries that
\* a revert to journal_i drains.
SelfDestroyedSince(jn, journal_i) ==
    {i \in (journal_i + 1)..Len(jn) :
         jn[i].tag = "AccountDestroyed" /\ jn[i].address = jn[i].target}

\* C29, selfdestruct to oneself: from CANCUN on, selfdestruct(A, A) of an
\* account A that is not CreatedLocally leaves A's balance and Selfdestructed
\* flags as they were and appends neither BalanceTransfer nor AccountDestroyed;
\* before CANCUN, or when A is CreatedLocally, it destroys A: A's balance
\* becomes zero, A is marked SelfdestructedLocally and AccountDestroyed is
\* appended; and the checkpoint_revert that undoes such a selfdestruct gives
\* every account the balance it had at the checkpoint.
C29_SelfdestructToSelf ==
    [][/\ (last'.op = "selfdestruct" /\ last'.address = last'.target) =>
             LET A == last'.address
                 flags == {"SelfDestructed", "SelfDestructedLocal"}
                 tags == {e.tag : e \in Appended(journal, journal')}
             IN  IF is_enabled_in(spec, CANCUN) /\ ~is_created_locally(state[A])
                 THEN /\ state'[A].info.balance = state[A].info.balance
                      /\ state'[A].status \cap flags = state[A].status \cap flags
                      /\ tags \cap {"BalanceTransfer", "AccountDestroyed"} = {}
                 ELSE /\ state'[A].info.balance = 0
                      /\ is_selfdestructed_locally(state'[A])
                      /\ journal'[Len(journal')] =
                             account_destroyed(A, A, journal'[Len(journal')].destroyed_status,
                                               state[A].info.balance)
       /\ (/\ last'.op = "checkpoint_revert"
           /\ SelfDestroyedSince(journal, last'.checkpoint.journal_i) # {}) =>
             \A a \in Addrs :
                 AccountView(Self', a).balance = last'.snap.accounts[a].balance]_vars

\* C30, sstore: sstore(addr, key, new) appends a StorageChanged entry carrying
\* the present value of the slot if and only if new differs from that value;
\* in both cases it returns the slot's original value (which the write leaves
\* as it was), the present value before the write, new, and the coldness sload
\* reports for the access; afterwards the slot reads new.
C30_SStore ==
    [][last'.op = "sstore" =>
          LET a == last'.address
              k == last'.key
              res == last'.res
              present == SlotValue(Self, a, k)
              changes == {i \in 1..Len(last'.pushed) : last'.pushed[i].tag = "StorageChanged"}
          IN  /\ res.present_value = present
              /\ res.original_value = state'[a].storage[k].original_value
              /\ k \in DOMAIN state[a].storage =>
                     res.original_value = state[a].storage[k].original_value
              /\ k \notin DOMAIN state[a].storage => res.original_value = present
              /\ res.new_value = state'[a].storage[k].present_value
              /\ res.is_cold = sload(Self, a, k).is_cold
              /\ IF res.new_value # present
                 THEN /\ changes = {Len(last'.pushed)}
                      /\ last'.pushed[Len(last'.pushed)] = storage_changed(a, k, present)
                 ELSE changes = {}
              /\ sload(Self', a, k).value = res.new_value
              /\ ~sload(Self', a, k).is_cold]_vars

\* Both cases have happened in a row: an sstore that changed the slot and
\* appended StorageChanged, then an sstore of the same value that appended
\* nothing.
C30_Witness ==
    /\ last.op = "sstore"
    /\ last.res.new_value = last.res.present_value
    /\ last.res.new_value # last.res.original_value
    /\ last.pushed = <<>>
    /\ journal # <<>>
    /\ journal[Len(journal)] =
           storage_changed(last.address, last.key, last.res.original_value)

\* C31, transient storage: tload reads zero at the start of a transaction and
\* after a tstore the value stored, every other key and every operation but
\* tstore, checkpoint_revert and the end of a transaction leaving the values
\* as they are; tstore appends TransientStorageChanged, carrying the previous
\* value, exactly when the value stored differs from it; and checkpoint_revert
\* gives every key the value tload returned when the checkpoint was taken.
C31_TransientStorage ==
    [][/\ last'.op = "tstore" =>
              LET a == last'.address
                  k == last'.key
                  old == tload(Self, a, k)
              IN  /\ tload(Self', a, k) = last'.new
                  /\ \A b \in Addrs, l \in Keys :
                         <<b, l>> # <<a, k>> => tload(Self', b, l) = tload(Self, b, l)
                  /\ journal' = IF last'.new # old
                                THEN Append(journal, transient_storage_changed(a, k, old))
                                ELSE journal
       /\ last'.op \in {"commit_tx", "discard_tx"} =>
              \A b \in Addrs, l \in Keys : tload(Self', b, l) = 0
       /\ last'.op = "checkpoint_revert" =>
              \A b \in Addrs, l \in Keys :
                  tload(Self', b, l) = last'.snap.transient_storage[<<b, l>>]
       /\ last'.op \notin {"tstore", "commit_tx", "discard_tx", "checkpoint_revert"} =>
              \A b \in Addrs, l \in Keys : tload(Self', b, l) = tload(Self, b, l)]_vars

\* Inside a checkpoint taken when the key held 1, the value was overwritten
\* by 2 and then removed by a store of zero: each store pushed the value it
\* replaced.
C31_Witness ==
    /\ last.op = "tstore"
    /\ last.new = 0
    /\ tload(Self, ALICE, "k1") = 0
    /\ cps # <<>>
    /\ cps[Len(cps)].snap.transient_storage[<<ALICE, "k1">>] = 1
    /\ journal = <<transient_storage_changed(ALICE, "k1", 0),
                   transient_storage_changed(ALICE, "k1", 1),
                   transient_storage_changed(ALICE, "k1", 2)>>

\* C32, transfer: a transfer(from, to, amt) that returns Ok(None) with
\* amt # 0 takes amt from the balance of from and adds amt to the balance of
\* to, both as loaded (a self-transfer leaves the balance as it was), changes
\* no other account, leaves both touched and appends exactly one
\* BalanceTransfer entry, the last; with amt = 0 it loads and touches to only,
\* changes no balance and appends no BalanceTransfer.
C32_Transfer ==
    [][(last'.op = "transfer" /\ last'.error = "None") =>
          LET from == last'.from
              to == last'.to
              amt == last'.balance
              was == IF amt = 0 THEN load_account(Self, to).j
                     ELSE load_account(load_account(Self, from).j, to).j
              moved == {i \in (Len(journal) + 1)..Len(journal') :
                            journal'[i].tag = "BalanceTransfer"}
          IN  /\ \A a \in Addrs \ {from, to} :
                     /\ a \in DOMAIN state' <=> a \in DOMAIN state
                     /\ a \in DOMAIN state => state'[a] = state[a]
              /\ is_touched(state'[to])
              /\ IF amt = 0
                 THEN /\ state'[to].info.balance = was.state[to].info.balance
                      /\ from # to =>
                             /\ from \in DOMAIN state' <=> from \in DOMAIN state
                             /\ from \in DOMAIN state => state'[from] = state[from]
                      /\ moved = {}
                 ELSE /\ is_touched(state'[from])
                      /\ IF from = to
                         THEN state'[to].info.balance = was.state[to].info.balance
                         ELSE /\ state'[from].info.balance + amt = was.state[from].info.balance
                              /\ state'[to].info.balance = was.state[to].info.balance + amt
                      /\ moved = {Len(journal')}
                      /\ journal'[Len(journal')] = balance_transfer(from, to, amt)]_vars

\* One unit has moved from alice to the precompile address.
C32_Witness ==
    /\ last.op = "transfer"
    /\ last.error = "None"
    /\ last.balance = 1
    /\ last.to = PRECOMPILE
    /\ state[ALICE].info.balance = 1
    /\ state[PRECOMPILE].info.balance = 1
    /\ journal[Len(journal)] = balance_transfer(ALICE, PRECOMPILE, 1)

\* C33, gas of the result: after last_frame_result the gas spent is
\* tx.gas_limit less the gas the first frame had left when its result is ok or
\* a revert, and all of tx.gas_limit when it is a halt; the refund recorded is
\* the frame's refund counter when the result is ok and zero otherwise.
C33_LastFrameResult ==
    last.op = "last_frame_result" =>
        /\ last.gas.limit = last.tx_gas_limit
        /\ spent(last.gas) =
               IF last.result \in {"Stop", "Return", "SelfDestruct", "Revert",
                                   "CallTooDeep", "OutOfFunds"}
               THEN last.tx_gas_limit - last.frame_gas.remaining
               ELSE last.tx_gas_limit
        /\ last.gas.refunded =
               IF last.result \in {"Stop", "Return", "SelfDestruct"}
               THEN last.frame_gas.refunded
               ELSE 0

\* A reverted frame that had gas left and a refund collected: the gas left is
\* given back, the refund is not.
C33_Witness ==
    /\ last.op = "last_frame_result"
    /\ last.result = "Revert"
    /\ last.frame_gas.remaining > 0
    /\ last.frame_gas.refunded > 0
    /\ last.gas.remaining = last.frame_gas.remaining
    /\ last.gas.refunded = 0
    /\ spent(last.gas) > 21000

\* C34, one checkpoint per frame: while the frame loop runs, the checkpoints
\* outstanding are those of the frames on the stack, one each and in their
\* order; a checkpoint is taken only by the frame_init of the first frame or
\* of a call, and with it a frame is pushed (or the run fails with the error
\* of the database); a checkpoint is committed or reverted only when a frame
\* returns, one for the one frame popped (or by catch_error, which discards
\* the transaction); and when the execution has returned its result no
\* checkpoint is outstanding.
C34_FrameCheckpoints ==
    [][/\ hs'.pc = "exec_loop" =>
              /\ depth' = Len(hs'.frame_stack)
              /\ Len(cps') = Len(hs'.frame_stack)
              /\ \A i \in 1..Len(cps') :
                     cps'[i].checkpoint = hs'.frame_stack[i].checkpoint
       /\ depth' > depth =>
              /\ last'.op \in {"execution", "frame_call"}
              /\ depth' = depth + 1
              /\ \/ /\ Len(hs'.frame_stack) = Len(hs.frame_stack) + 1
                    /\ SubSeq(hs'.frame_stack, 1, Len(hs.frame_stack)) = hs.frame_stack
                 \/ hs'.pc = "catch_error"
       /\ depth' < depth =>
              \/ /\ last'.op = "frame_return"
                 /\ depth' = depth - 1
              \/ last'.op = "catch_error"
       /\ last'.op = "frame_return" =>
              /\ depth' = depth - 1
              /\ hs'.frame_stack = SubSeq(hs.frame_stack, 1, Len(hs.frame_stack) - 1)
       /\ (hs.pc \in {"execution", "exec_loop"}
           /\ hs'.pc \in {"post_execution", "execution_result"}) =>
              /\ depth' = 0
              /\ cps' = <<>>
              /\ hs'.frame_stack = <<>>]_vars

\* Two frames are on the stack, each with its checkpoint, and the journal has
\* grown between the two checkpoints.
C34_Witness ==
    /\ hs.pc = "exec_loop"
    /\ Len(hs.frame_stack) = 2
    /\ depth = 2
    /\ hs.frame_stack[1].checkpoint # hs.frame_stack[2].checkpoint
    /\ last.op = "frame_call"

\* C35, the results of frame_init: a call whose initialisation yields a result
\* pushes no frame, and the frame that issued it stays on top of the stack and
\* the loop goes on; the first frame's initialisation yielding a result ends
\* the execution at once with an empty stack; no frame is ever pushed for a
\* target without code or beyond the call stack limit; and the loop returns a
\* result only when a frame returns and leaves the stack empty.
C35_FrameInitResult ==
    [][/\ last'.op = "execution" =>
              \/ /\ hs'.pc = "exec_loop"
                 /\ Len(hs'.frame_stack) = 1
              \/ /\ hs'.pc = NextPhase(hs, "execution")
                 /\ hs'.frame_stack = <<>>
              \/ hs'.pc = "catch_error"
       /\ last'.op = "frame_call" =>
              \/ /\ hs'.pc = "exec_loop"
                 /\ SubSeq(hs'.frame_stack, 1, Len(hs.frame_stack)) = hs.frame_stack
                 /\ Len(hs'.frame_stack) \in {Len(hs.frame_stack), Len(hs.frame_stack) + 1}
              \/ hs'.pc = "catch_error"
       /\ last'.op = "frame_return" =>
              IF hs'.frame_stack = <<>> THEN hs'.pc = NextPhase(hs, "execution")
              ELSE hs'.pc = "exec_loop"
       /\ hs'.pc = "exec_loop" =>
              /\ hs'.frame_stack # <<>>
              /\ Len(hs'.frame_stack) <= MaxDepth
              /\ \A i \in 1..Len(hs'.frame_stack) :
                     state'[hs'.frame_stack[i].target].info.code_hash # KECCAK_EMPTY
       /\ (hs.pc = "exec_loop" /\ hs'.pc \notin {"exec_loop", "catch_error"}) =>
              /\ last'.op = "frame_return"
              /\ hs'.frame_stack = <<>>]_vars

\* The first frame has called an account without code and sent it value: no
\* frame was pushed for the call, its checkpoint is closed, and the first
\* frame is still the only one on the stack.
C35_Witness ==
    /\ last.op = "frame_call"
    /\ hs.pc = "exec_loop"
    /\ Len(hs.frame_stack) = 1
    /\ depth = 1
    /\ journal # <<>>
    /\ journal[Len(journal)].tag = "BalanceTransfer"
    /\ journal[Len(journal)].to = ALICE
    /\ journal[Len(journal)].balance = 1

\* The AccountCreated entries of address a in a journal: the creations of a
\* in the current transaction that no checkpoint_revert has undone.
CreatedInTx(jn, a) ==
    {i \in 1..Len(jn) : jn[i].tag = "AccountCreated" /\ jn[i].address = a}

\* C36, local flags stay in their transaction: after the first load_account of
\* an account in a transaction the account is neither CreatedLocally nor
\* SelfdestructedLocally, whatever flags the transactions before left on it,
\* and an account left SelfdestructedLocally has default info (zero balance
\* and nonce, no code) and no storage; so from CANCUN on the selfdestruct of
\* an account not created in the current transaction, created in an earlier
\* one or not, does not mark it selfdestructed and appends no
\* AccountDestroyed, and with another target it moves the balance there.
C36_LocalFlagsDontLeak ==
    [][/\ (last'.op = "load_account" /\ ~last'.was_loaded) =>
              LET a == last'.address
              IN  /\ ~is_created_locally(state'[a])
                  /\ ~is_selfdestructed_locally(state'[a])
                  /\ "SelfDestructedLocal" \in tx_start[a].status =>
                         /\ state'[a].info = DefaultInfo
                         /\ state'[a].storage = EmptyStorage
       /\ (/\ last'.op = "selfdestruct"
           /\ is_enabled_in(spec, CANCUN)
           /\ CreatedInTx(journal, last'.address) = {}) =>
              LET A == last'.address
                  T == last'.target
              IN  /\ ~is_selfdestructed_locally(state'[A])
                  /\ DestroyedInTx(journal', A) = {}
                  /\ A # T =>
                         /\ state'[A].info.balance = 0
                         /\ journal'[Len(journal')] =
                                balance_transfer(A, T, state[A].info.balance)]_vars

\* From CANCUN on, an account created in an earlier transaction and loaded in
\* this one has selfdestructed to another account: it is not marked.
C36_Witness ==
    /\ last.op = "selfdestruct"
    /\ is_enabled_in(spec, CANCUN)
    /\ transaction_id > 0
    /\ last.address # last.target
    /\ is_created(state[last.address])
    /\ CreatedInTx(journal, last.address) = {}
    /\ ~is_selfdestructed(state[last.address])
    /\ journal[Len(journal)].tag = "BalanceTransfer"

\* The addresses whose code a journal's entries from index `from` on changed.
CodeChangedSince(jn, from) ==
    {jn[i].address : i \in {n \in from..Len(jn) : jn[n].tag = "CodeChanged"}}

\* C37, set_code is undone: after a checkpoint_revert that undoes a set_code
\* of an address, the address has the code hash it had when the checkpoint was
\* taken, and after a discard_tx that undoes one, the code hash it had when
\* the transaction began, also when the address had code before the set_code.
C37_SetCodeReverted ==
    [][/\ last'.op = "checkpoint_revert" =>
              \A a \in CodeChangedSince(journal, last'.checkpoint.journal_i + 1) :
                  AccountView(Self', a).code_hash = last'.snap.accounts[a].code_hash
       /\ last'.op = "discard_tx" =>
              \A a \in CodeChangedSince(journal, 1) :
                  AccountView(Self', a).code_hash = last'.tx_start[a].code_hash]_vars


\* C38: discard_tx and checkpoint_revert never clear the Touched flag of an
\* account that was touched before the reverted window began: an account
\* touched when the transaction began is touched after discard_tx (also the
\* one of catch_error), and an account touched at the checkpoint is touched
\* after the checkpoint_revert, the caller whose entries are appended by
\* caller_accounting_journal_entry included.
C38_TouchedSurvivesRevert ==
    [][/\ last'.op \in {"discard_tx", "catch_error"} =>
              \A a \in Addrs :
                  "Touched" \in last'.tx_start[a].status =>
                      "Touched" \in AccountView(Self', a).status
       /\ last'.op = "checkpoint_revert" =>
              \A a \in Addrs :
                  "Touched" \in last'.snap.accounts[a].status =>
                      "Touched" \in AccountView(Self', a).status]_vars


C40_CommittedStorageSurvives ==
    [][/\ last'.op = "checkpoint_revert" =>
              \A a \in DOMAIN state', k \in Keys :
                  (/\ "Created" \notin tx_start[a].status
                   /\ tx_start[a].storage[k] # DbStorage(a, k)
                   /\ last'.snap.accounts[a].storage[k] = tx_start[a].storage[k]) =>
                      sload(Self', a, k).value = tx_start[a].storage[k]
       /\ last'.op = "discard_tx" =>
              \A a \in DOMAIN state', k \in Keys :
                  (/\ "Created" \notin last'.tx_start[a].status
                   /\ last'.tx_start[a].storage[k] # DbStorage(a, k)) =>
                      sload(Self', a, k).value = last'.tx_start[a].storage[k]]_vars

====
